---- MODULE Spec2Model ----
(***************************************************************************)
(* Quota engine of backend/services/api_usage_service.py: the usage       *)
(* ledger (_reset_usage_if_needed, increment_api_usage), the quota         *)
(* decision (check_api_limit) and the dynamic adjustment aggregator        *)
(* (_adjust_tier_limits_dynamically), and the metered tool executor of     *)
(* backend/services/llm_service.py (wrapped_tool_executor).                *)
(*                                                                         *)
(* Firestore documents are Python dicts: here functions from key strings   *)
(* to values, with a key missing from the dict missing from the DOMAIN.    *)
(* A document that does not exist is None; None and the empty dict are     *)
(* both falsy, and every read in the service tests the document only for   *)
(* truthiness, so both are the empty function NoDoc.                       *)
(***************************************************************************)
EXTENDS Integers, Sequences, FiniteSets, TLC

VARIABLES
    now,         \* the current UTC day, as a day index (datetime.now(timezone.utc))
    usage,       \* api_usage documents: usage[user_id][api_id]
    apiConfigs,  \* user_api_configs documents: apiConfigs[user_id][api_id]
    apiLimits,   \* the global_configs/api_limits document
    globalApis,  \* global_api_configs documents: globalApis[api_id]
    rst,         \* argument and result of a call of _reset_usage_if_needed
    chk,         \* position, locals and outcome of a call of check_api_limit
    inc,         \* position and locals of each running increment_api_usage
    incLast,     \* what the last completed increment_api_usage read, wrote and logged
    usage0,      \* the api_usage documents and the day at the start
    agg,         \* position and locals of a pass of _adjust_tier_limits_dynamically
    ex,          \* position and outcome of each run of wrapped_tool_executor, with its call of check_api_limit
    lim,         \* positions of update_api_limits, the monitor task and the configuration document operations
    adm,         \* rbac_capabilities, tiers, a user's account, profile and claims, and each running admin operation
    res          \* arguments and result of the last capability resolution

vars == <<now, usage, apiConfigs, apiLimits, globalApis, rst, chk, inc, incLast, usage0, agg, ex, lim, adm, res>>

\* ---------------------------------------------------------------- bounds
MaxDay == 3
DaysPerMonth == 2
MaxUsage == 2
MaxLimit == 2
MaxCalls == 2
MaxPasses == 2
MaxCap == 5
MaxStatic == 4
MaxAdminCalls == 3

Users == {"u1", "u2"}
Apis == {"a1", "a2"}
Tiers == {"free", "pro"}
Procs == {"p1", "p2"}

\* ---------------------------------------------------------------- dicts
NoDoc == [k \in {} |-> 0]

Get(d, k, default) == IF k \in DOMAIN d THEN d[k] ELSE default

Put(d, k, v) == [x \in (DOMAIN d) \cup {k} |-> IF x = k THEN v ELSE d[x]]

Truthy(d) == DOMAIN d # {}

\* {**a, **b}: the keys of both, b's value where both have the key.
Merged(a, b) == [k \in DOMAIN a \cup DOMAIN b |-> IF k \in DOMAIN b THEN b[k] ELSE a[k]]

\* A dict with the given optional keys: a key whose value is Absent is left out.
RECURSIVE MkDict(_, _)
MkDict(keys, vals) ==
    IF keys = <<>> THEN NoDoc
    ELSE LET rest == MkDict(Tail(keys), Tail(vals))
         IN  IF Len(Head(vals)) = 0 THEN rest ELSE Put(rest, Head(keys), Head(vals)[1])

Absent == <<>>

Opt(S) == {Absent} \cup {<<x>> : x \in S}

\* ---------------------------------------------------------------- clock
\* strftime("%Y-%m") and strftime("%Y-%m-%d") of the current UTC time: the
\* day string carries the month string as its prefix.
NoMarker == <<>>

GetCurrentMonthStr(t) == <<t \div DaysPerMonth>>

GetCurrentDayStr(t) == <<t \div DaysPerMonth, t % DaysPerMonth>>

\* ---------------------------------------------------------------- ledger
\* A mutation of the reconciliation: the day check also clears the month counter.
ResetUsageIfNeeded_DayClearsMonth(usage_data, t) ==
    LET m == IF Get(usage_data, "last_reset_month", NoMarker) # GetCurrentMonthStr(t)
             THEN Put(Put(usage_data, "monthly_usage", 0), "last_reset_month", GetCurrentMonthStr(t))
             ELSE usage_data
    IN  IF Get(m, "last_reset_day", NoMarker) # GetCurrentDayStr(t)
        THEN Put(Put(Put(m, "daily_usage", 0), "monthly_usage", 0), "last_reset_day", GetCurrentDayStr(t))
        ELSE m

\* The body of _reset_usage_if_needed, as it runs when the coroutine is awaited.
ResetUsageIfNeeded(usage_data, t) ==
    LET m == IF Get(usage_data, "last_reset_month", NoMarker) # GetCurrentMonthStr(t)
             THEN Put(Put(usage_data, "monthly_usage", 0), "last_reset_month", GetCurrentMonthStr(t))
             ELSE usage_data
    IN  IF Get(m, "last_reset_day", NoMarker) # GetCurrentDayStr(t)
        THEN Put(Put(m, "daily_usage", 0), "last_reset_day", GetCurrentDayStr(t))
        ELSE m

\* A usage document with the given counters and markers; a marker given as
\* NoMarker is a key the document does not have.
MkUsage(m, d, lm, ld) ==
    LET base == [monthly_usage |-> m, daily_usage |-> d]
        withM == IF lm = NoMarker THEN base ELSE Put(base, "last_reset_month", lm)
    IN  IF ld = NoMarker THEN withM ELSE Put(withM, "last_reset_day", ld)

\* Usage documents as the store can hold them.
UsageDocs ==
    { MkUsage(m, d, lm, ld) :
        m \in 0..MaxUsage, d \in 0..MaxUsage,
        lm \in {GetCurrentMonthStr(t) : t \in 0..MaxDay} \cup {NoMarker},
        ld \in {GetCurrentDayStr(t) : t \in 0..MaxDay} \cup {NoMarker} }

\* ---------------------------------------------------------------- values of Python locals
\* A local holds a dict, or the coroutine object that calling an async def
\* without await returns (the body of the function has not run).
Dict(d) == [kind |-> "dict", val |-> d]

Coroutine == [kind |-> "coroutine", val |-> NoDoc]

\* A call that hands back the record it was given, as a dict, without
\* reconciling it.
ResetCallNotAwaited_HandsBackRaw(usage_data, t) == Dict(usage_data)

\* A call that is awaited and whose body clears the monthly counter at a
\* month rollover and never the daily one.
ResetCallNotAwaited_ClearsMonthOnly(usage_data, t) ==
    Dict(IF Get(usage_data, "last_reset_month", NoMarker) # GetCurrentMonthStr(t)
         THEN Put(Put(usage_data, "monthly_usage", 0), "last_reset_month", GetCurrentMonthStr(t))
         ELSE usage_data)

\* self._reset_usage_if_needed(usage_data) as the service calls it: the
\* function is declared async def and the call has no await.
ResetCallNotAwaited(usage_data, t) == Coroutine

\* ---------------------------------------------------------------- profile
\* Attributes of a UserProfile instance: its declared fields. pydantic's
\* BaseModel defines no get method, and a key of user_data that is no
\* declared field (unlimited_api_access) is dropped by UserProfile(**user_data).
UserProfileAttrs ==
    {"user_id", "username", "email", "tier", "roles", "status", "created_at", "last_login_at"}

\* Profiles a request can carry. unlimited_api_access is the flag as stored
\* in the user's document, which the model class does not declare.
Profiles ==
    { [user_id |-> "u1", tier |-> tr, roles |-> r, unlimited_api_access |-> f] :
        tr \in {"free"}, r \in {{"user"}, {"user", "creator"}}, f \in BOOLEAN }
    \cup
    { [user_id |-> "u1", tier |-> "pro", roles |-> {"user"}, unlimited_api_access |-> FALSE] }

\* ---------------------------------------------------------------- quota decision
\* Lines 271-276: the limit of one period after the dynamic adjustment.
AdjustedLimit(default_limit, dynamic_adjustment) ==
    LET adjusted == default_limit + dynamic_adjustment
    IN  IF default_limit # -1 THEN (IF 0 >= adjusted THEN 0 ELSE adjusted) ELSE -1

\* get_api_limits_config: the 'limits' map of the api_limits document.
GetApiLimitsConfig == IF Truthy(apiLimits) THEN Get(apiLimits, "limits", NoDoc) ELSE NoDoc

Returned(v, reads) == [result |-> v, reads |-> reads]

\* Stage 4, lines 262-287, on the limits map that the read of line 261 gave.
TierStage(global_api_limits_config, user_tier, current_monthly_usage, current_daily_usage, reads) ==
    LET tier_limits == Get(global_api_limits_config, user_tier, NoDoc)
        default_monthly_limit == Get(tier_limits, "monthly_calls", -1)
        default_daily_limit == Get(tier_limits, "daily_calls", -1)
        dynamic_monthly_adjustment == Get(tier_limits, "dynamic_monthly_adjustment", 0)
        dynamic_daily_adjustment == Get(tier_limits, "dynamic_daily_adjustment", 0)
        adjusted_monthly_limit == AdjustedLimit(default_monthly_limit, dynamic_monthly_adjustment)
        adjusted_daily_limit == AdjustedLimit(default_daily_limit, dynamic_daily_adjustment)
    IN  IF adjusted_monthly_limit # -1 /\ current_monthly_usage >= adjusted_monthly_limit
        THEN Returned("False", reads)
        ELSE IF adjusted_daily_limit # -1 /\ current_daily_usage >= adjusted_daily_limit
        THEN Returned("False", reads)
        ELSE Returned("True", reads)

\* Stages 2 and 3 share one shape (lines 234-243 and 250-258): the stage
\* decides when either of its two fields is not None.
StageDecides(cfg, kM, kD) == kM \in DOMAIN cfg \/ kD \in DOMAIN cfg

StageResult(cfg, kM, kD, current_monthly_usage, current_daily_usage) ==
    IF kM \in DOMAIN cfg /\ current_monthly_usage >= cfg[kM] THEN "False"
    ELSE IF kD \in DOMAIN cfg /\ current_daily_usage >= cfg[kD] THEN "False"
    ELSE "True"

\* A call of check_api_limit is a coroutine that is suspended at each of its
\* three awaited reads (lines 207, 224, 261). Its record holds where it is
\* (pc: the collection whose read it awaits, or done), its arguments, the
\* documents it has been given so far, the day at which it was given the
\* usage document, and its locals; out is what it returned, "True" or
\* "False", or the name of the exception that left it, with the reads it
\* made, in order.
IdleCall ==
    [pc |-> "idle", profile |-> CHOOSE pr \in Profiles : TRUE, api |-> "a1",
     stored |-> NoDoc, t |-> 0, monthly |-> 0, daily |-> 0, config |-> NoDoc, limits |-> NoDoc,
     failed |-> "none", out |-> Returned("none", <<>>)]

\* Lines 194-204: the call up to its first await.
Called(user_profile, api_id) ==
    LET is_creator == "creator" \in user_profile.roles
        c == [IdleCall EXCEPT !.profile = user_profile, !.api = api_id]
    IN  IF is_creator /\ "get" \notin UserProfileAttrs
        THEN [c EXCEPT !.pc = "done", !.out = Returned("AttributeError", <<>>)]
        ELSE IF is_creator /\ user_profile.unlimited_api_access
        THEN [c EXCEPT !.pc = "done", !.out = Returned("True", <<>>)]
        ELSE [c EXCEPT !.pc = "api_usage"]

\* An awaited read that raises in the store: no try encloses the reads of
\* lines 207, 224 and 261, so the exception leaves the call.
StoreFailed(c, collection) ==
    [c EXCEPT !.pc = "done", !.failed = collection,
              !.out = Returned("StoreError", Append(c.out.reads, collection))]

\* A read of the usage document that adds, to the counters of a user
\* without a record, the runs that were admitted and have not called the
\* increment yet.
UsageRead_CountsAdmitted(c, stored, t, fails) ==
    LET admitted == Cardinality({p \in Procs : ex[p].check = "True" /\ inc[p].done = 0})
        user_api_usage ==
            IF ~Truthy(stored)
            THEN Dict([monthly_usage |-> admitted, daily_usage |-> admitted,
                       last_reset_month |-> GetCurrentMonthStr(t),
                       last_reset_day |-> GetCurrentDayStr(t)])
            ELSE ResetCallNotAwaited(stored, t)
        reads == Append(c.out.reads, "api_usage")
    IN  IF fails THEN StoreFailed(c, "api_usage")
        ELSE IF user_api_usage.kind # "dict"
        THEN [c EXCEPT !.pc = "done", !.stored = stored, !.t = t,
                       !.out = Returned("AttributeError", reads)]
        ELSE [c EXCEPT !.pc = "user_api_configs", !.stored = stored, !.t = t,
                       !.monthly = Get(user_api_usage.val, "monthly_usage", 0),
                       !.daily = Get(user_api_usage.val, "daily_usage", 0),
                       !.out = Returned("none", reads)]

\* Lines 207-221: the read of the usage document gave stored at time t.
UsageRead(c, stored, t, fails) ==
    LET user_api_usage ==
            IF ~Truthy(stored)
            THEN Dict([monthly_usage |-> 0, daily_usage |-> 0,
                       last_reset_month |-> GetCurrentMonthStr(t),
                       last_reset_day |-> GetCurrentDayStr(t)])
            ELSE ResetCallNotAwaited(stored, t)
        reads == Append(c.out.reads, "api_usage")
    IN  IF fails THEN StoreFailed(c, "api_usage")
        ELSE IF user_api_usage.kind # "dict"
        THEN [c EXCEPT !.pc = "done", !.stored = stored, !.t = t,
                       !.out = Returned("AttributeError", reads)]
        ELSE [c EXCEPT !.pc = "user_api_configs", !.stored = stored, !.t = t,
                       !.monthly = Get(user_api_usage.val, "monthly_usage", 0),
                       !.daily = Get(user_api_usage.val, "daily_usage", 0),
                       !.out = Returned("none", reads)]

\* Lines 224-258: the read of the UserApiConfig document gave user_api_config.
ConfigRead(c, user_api_config, fails) ==
    LET creator_override_unlimited == Get(user_api_config, "creator_override_unlimited", FALSE)
        reads == Append(c.out.reads, "user_api_configs")
        given == [c EXCEPT !.config = user_api_config]
    IN  IF fails THEN StoreFailed(c, "user_api_configs")
        ELSE IF creator_override_unlimited
        THEN [given EXCEPT !.pc = "done", !.out = Returned("True", reads)]
        ELSE IF StageDecides(user_api_config, "creator_override_monthly", "creator_override_daily")
        THEN [given EXCEPT !.pc = "done",
                           !.out = Returned(StageResult(user_api_config, "creator_override_monthly",
                                                        "creator_override_daily", c.monthly, c.daily),
                                            reads)]
        ELSE IF StageDecides(user_api_config, "user_defined_limit_monthly", "user_defined_limit_daily")
        THEN [given EXCEPT !.pc = "done",
                           !.out = Returned(StageResult(user_api_config, "user_defined_limit_monthly",
                                                        "user_defined_limit_daily", c.monthly, c.daily),
                                            reads)]
        ELSE [given EXCEPT !.pc = "api_limits", !.out = Returned("none", reads)]

\* Lines 261-287: the read of the api_limits document gave the limits map.
LimitsRead(c, global_api_limits_config, fails) ==
    IF fails THEN StoreFailed(c, "api_limits")
    ELSE [c EXCEPT !.pc = "done", !.limits = global_api_limits_config,
                   !.out = TierStage(global_api_limits_config, c.profile.tier, c.monthly, c.daily,
                                     Append(c.out.reads, "api_limits"))]

\* The call goes on from the await it is suspended at: the read is made on
\* the store as it is now.
Resumed(c, fails) ==
    CASE c.pc = "api_usage" -> UsageRead(c, usage[c.profile.user_id][c.api], now, fails)
      [] c.pc = "user_api_configs" -> ConfigRead(c, apiConfigs[c.profile.user_id][c.api], fails)
      [] c.pc = "api_limits" -> LimitsRead(c, GetApiLimitsConfig, fails)
      [] OTHER -> c

\* check_api_limit(user_profile, api_id), from the call to the first read.
Begun(user_profile, api_id, fails) ==
    LET c == Called(user_profile, api_id)
    IN  IF c.pc = "done" THEN c ELSE Resumed(c, fails)

Running(c) == c.pc \in {"api_usage", "user_api_configs", "api_limits"}

\* A call of check_api_limit that stores the record it reconciled.
CheckLimit_Persists(profiles, api_ids) ==
    \E user_profile \in profiles, api_id \in api_ids :
        LET stored == usage[user_profile.user_id][api_id]
        IN  /\ ~Running(chk)
            /\ chk' = Begun(user_profile, api_id, FALSE)
            /\ usage' = [usage EXCEPT ![user_profile.user_id][api_id] =
                             IF Truthy(stored) THEN ResetUsageIfNeeded(stored, now) ELSE stored]
            /\ UNCHANGED <<now, apiConfigs, apiLimits, globalApis, rst, inc, incLast, usage0, agg, ex, lim, adm, res>>

\* A call of check_api_limit for a request's profile, up to the read of the
\* usage document (lines 194-221); nothing is written.
CheckLimit(profiles, api_ids) ==
    \E user_profile \in profiles, api_id \in api_ids :
        /\ ~Running(chk)
        /\ chk' = Begun(user_profile, api_id, FALSE)
        /\ UNCHANGED <<now, usage, apiConfigs, apiLimits, globalApis, rst, inc, incLast, usage0, agg, ex, lim, adm, res>>

\* The call goes on with its next read (line 224 or 261) and runs to the
\* await after it or to its return.
CheckResume ==
    /\ Running(chk)
    /\ chk' = Resumed(chk, FALSE)
    /\ UNCHANGED <<now, usage, apiConfigs, apiLimits, globalApis, rst, inc, incLast, usage0, agg, ex, lim, adm, res>>

\* ---------------------------------------------------------------- reconciliation call
\* await self._reset_usage_if_needed(usage_data), on a document given by the caller.
ResetCall ==
    /\ ~rst.called
    /\ rst' = [called |-> TRUE, in |-> rst.in, t |-> now, out |-> ResetUsageIfNeeded(rst.in, now)]
    /\ UNCHANGED <<now, usage, apiConfigs, apiLimits, globalApis, chk, inc, incLast, usage0, agg, ex, lim, adm, res>>

\* ---------------------------------------------------------------- clock
Tick ==
    /\ now < MaxDay
    /\ now' = now + 1
    /\ UNCHANGED <<usage, apiConfigs, apiLimits, globalApis, rst, chk, inc, incLast, usage0, agg, ex, lim, adm, res>>

\* ---------------------------------------------------------------- increment_api_usage
IdleProc == [pc |-> "idle", user |-> "u1", api |-> "a1", read |-> NoDoc, usage_data |-> NoDoc, done |-> 0,
             logged |-> "none"]

\* Lines 159-168: the awaited read of the usage document, and the fresh
\* record when there is none.
IncBegin(p) ==
    \E user_id \in {"u1"}, api_id \in {"a1"} :
        /\ inc[p].pc = "idle"
        /\ inc[p].done < MaxCalls
        /\ LET stored == usage[user_id][api_id]
               usage_data ==
                   IF ~Truthy(stored)
                   THEN [monthly_usage |-> 0, daily_usage |-> 0,
                         last_reset_month |-> GetCurrentMonthStr(now),
                         last_reset_day |-> GetCurrentDayStr(now)]
                   ELSE stored
           IN  inc' = [inc EXCEPT ![p] = [pc |-> "fetched", user |-> user_id, api |-> api_id,
                                          read |-> stored, usage_data |-> usage_data,
                                          done |-> inc[p].done, logged |-> inc[p].logged]]
        /\ UNCHANGED <<now, usage, apiConfigs, apiLimits, globalApis, rst, chk, incLast, usage0, agg, ex, lim, adm, res>>

\* Lines 173-174 on a dict.
AddOne(usage_data) ==
    Put(Put(usage_data, "monthly_usage", usage_data["monthly_usage"] + 1),
        "daily_usage", usage_data["daily_usage"] + 1)

\* Lines 171-186: the reconciliation call, the two += 1, the awaited write,
\* and the except clause that logs and swallows. Subscripting what the call
\* of line 171 gave, when that is no dict, raises TypeError at line 173,
\* before the write of line 177.
IncFinish(p) ==
    /\ inc[p].pc = "fetched"
    /\ LET user_id == inc[p].user
           api_id == inc[p].api
           usage_data == ResetCallNotAwaited(inc[p].usage_data, now)
           logged == IF usage_data.kind # "dict" THEN "TypeError" ELSE "none"
           written == IF logged # "none" THEN usage[user_id][api_id] ELSE AddOne(usage_data.val)
       IN  /\ usage' = [usage EXCEPT ![user_id][api_id] = written]
           /\ incLast' = [called |-> TRUE, proc |-> p, user |-> user_id, api |-> api_id, t |-> now,
                          read |-> inc[p].read, after |-> written, logged |-> logged]
           /\ inc' = [inc EXCEPT ![p].pc = "idle", ![p].done = inc[p].done + 1,
                                 ![p].logged = logged]
    /\ UNCHANGED <<now, apiConfigs, apiLimits, globalApis, rst, chk, usage0, agg, ex, lim, adm, res>>

\* Lines 159-163 and 184-186: the awaited read of the usage document fails in
\* the store; the except clause logs the error and the call returns.
IncReadFails(p) ==
    \E user_id \in {"u1"}, api_id \in {"a1"} :
        /\ inc[p].pc = "idle"
        /\ inc[p].done < MaxCalls
        /\ inc' = [inc EXCEPT ![p] = [pc |-> "idle", user |-> user_id, api |-> api_id,
                                      read |-> NoDoc, usage_data |-> NoDoc,
                                      done |-> inc[p].done + 1, logged |-> "StoreError"]]
        /\ incLast' = [called |-> TRUE, proc |-> p, user |-> user_id, api |-> api_id, t |-> now,
                       read |-> NoDoc, after |-> usage[user_id][api_id], logged |-> "StoreError"]
        /\ UNCHANGED <<now, usage, apiConfigs, apiLimits, globalApis, rst, chk, usage0, agg, ex, lim, adm, res>>

\* An except clause that logs and raises again.
IncrementPropagates_Reraises(exc) == exc # "none"

\* Whether exc, raised in the try block of increment_api_usage, leaves the
\* call: the clause of line 184 is except Exception, which catches the
\* TypeError of line 173 and the errors of the store, and lines 185-186 log
\* and do not raise.
IncrementPropagates(exc) == exc \notin {"none", "TypeError", "StoreError"}


\* ---------------------------------------------------------------- aggregator
DefaultGlobalMonthlyCap == 100000
DefaultGlobalDailyCap == 5000

\* The users collection as the store lists it.
UserList == <<"u1", "u2">>

\* The test of lines 375-378 without the comparison of the period marker.
UsagePart_IgnoresMarkers(usage_doc, period, current_period_str) ==
    IF ~Truthy(usage_doc) THEN 0
    ELSE IF period = "month" THEN Get(usage_doc, "monthly_usage", 0)
    ELSE Get(usage_doc, "daily_usage", 0)

\* Lines 374-378: what the usage document of one user adds to the total of
\* a period.
UsagePart(usage_doc, period, current_period_str) ==
    IF ~Truthy(usage_doc) THEN 0
    ELSE IF period = "month" /\ Get(usage_doc, "last_reset_month", NoMarker) = current_period_str
    THEN Get(usage_doc, "monthly_usage", 0)
    ELSE IF period = "day" /\ Get(usage_doc, "last_reset_day", NoMarker) = current_period_str
    THEN Get(usage_doc, "daily_usage", 0)
    ELSE 0

\* Lines 425-434, in source order; factor is hundredths.
AdjustmentRules(period) ==
    IF period = "monthly"
    THEN << [threshold |-> 80, factor |-> 75], [threshold |-> 90, factor |-> 50] >>
    ELSE << [threshold |-> 70, factor |-> 80], [threshold |-> 90, factor |-> 40] >>

\* (total / cap) * 100 >= threshold, with the percentage 0 when cap <= 0
\* (lines 413-414, 443, 453).
PercentageAtLeast(total, cap, threshold) ==
    IF cap > 0 THEN total * 100 >= threshold * cap ELSE 0 >= threshold

\* int(original * factor): int() drops the fraction, towards zero.
Scaled(original, factor) ==
    IF original * factor >= 0
    THEN (original * factor) \div 100
    ELSE -((-(original * factor)) \div 100)

RECURSIVE RuleLoop_ScalesUnlimited(_, _, _, _, _)
\* The rule loop without the test for the unlimited sentinel.
RuleLoop_ScalesUnlimited(rules, i, original, total, cap) ==
    IF i > Len(rules) THEN 0
    ELSE IF PercentageAtLeast(total, cap, rules[i].threshold)
    THEN Scaled(original, rules[i].factor) - original
    ELSE RuleLoop_ScalesUnlimited(rules, i + 1, original, total, cap)

RECURSIVE RuleLoop(_, _, _, _, _)
\* Lines 442-448 and 452-456: the rules are visited in list order and the
\* loop breaks at the first rule whose threshold is met.
RuleLoop(rules, i, original, total, cap) ==
    IF i > Len(rules) THEN 0
    ELSE IF PercentageAtLeast(total, cap, rules[i].threshold)
    THEN (IF original # -1 THEN Scaled(original, rules[i].factor) - original ELSE 0)
    ELSE RuleLoop(rules, i + 1, original, total, cap)

\* A tier entry that keeps the adjustment stored before the pass when no
\* threshold of the period is met.
AdjustedEntry_Lingers(limits, mtotal, mcap, dtotal, dcap) ==
    LET original_monthly == Get(limits, "monthly_calls", -1)
        original_daily == Get(limits, "daily_calls", -1)
        m == RuleLoop(AdjustmentRules("monthly"), 1, original_monthly, mtotal, mcap)
        d == RuleLoop(AdjustmentRules("daily"), 1, original_daily, dtotal, dcap)
    IN  Put(Put(limits, "dynamic_monthly_adjustment",
                IF m = 0 THEN Get(limits, "dynamic_monthly_adjustment", 0) ELSE m),
            "dynamic_daily_adjustment",
            IF d = 0 THEN Get(limits, "dynamic_daily_adjustment", 0) ELSE d)

\* A tier entry that keeps the stricter of the adjustment stored before the
\* pass and the one the pass computes.
AdjustedEntry_KeepsStricter(limits, mtotal, mcap, dtotal, dcap) ==
    LET original_monthly == Get(limits, "monthly_calls", -1)
        original_daily == Get(limits, "daily_calls", -1)
        m == RuleLoop(AdjustmentRules("monthly"), 1, original_monthly, mtotal, mcap)
        d == RuleLoop(AdjustmentRules("daily"), 1, original_daily, dtotal, dcap)
        old_m == Get(limits, "dynamic_monthly_adjustment", 0)
        old_d == Get(limits, "dynamic_daily_adjustment", 0)
    IN  Put(Put(limits, "dynamic_monthly_adjustment", IF old_m < m THEN old_m ELSE m),
            "dynamic_daily_adjustment", IF old_d < d THEN old_d ELSE d)

\* A tier entry whose deltas are computed from the limits as adjusted by the
\* pass before, static limit plus stored adjustment.
AdjustedEntry_Compounds(limits, mtotal, mcap, dtotal, dcap) ==
    LET original_monthly == Get(limits, "monthly_calls", -1)
        original_daily == Get(limits, "daily_calls", -1)
        reduced_monthly == IF original_monthly = -1 THEN -1
                           ELSE original_monthly + Get(limits, "dynamic_monthly_adjustment", 0)
        reduced_daily == IF original_daily = -1 THEN -1
                         ELSE original_daily + Get(limits, "dynamic_daily_adjustment", 0)
        m == RuleLoop(AdjustmentRules("monthly"), 1, reduced_monthly, mtotal, mcap)
        d == RuleLoop(AdjustmentRules("daily"), 1, reduced_daily, dtotal, dcap)
    IN  Put(Put(limits, "dynamic_monthly_adjustment",
                IF original_monthly = -1 THEN 0 ELSE reduced_monthly + m - original_monthly),
            "dynamic_daily_adjustment",
            IF original_daily = -1 THEN 0 ELSE reduced_daily + d - original_daily)

\* A tier entry whose static limits are overwritten with the scaled limits.
AdjustedEntry_OverwritesStatic(limits, mtotal, mcap, dtotal, dcap) ==
    LET original_monthly == Get(limits, "monthly_calls", -1)
        original_daily == Get(limits, "daily_calls", -1)
        m == RuleLoop(AdjustmentRules("monthly"), 1, original_monthly, mtotal, mcap)
        d == RuleLoop(AdjustmentRules("daily"), 1, original_daily, dtotal, dcap)
    IN  Put(Put(Put(Put(limits, "monthly_calls", original_monthly + m),
                    "daily_calls", original_daily + d),
                "dynamic_monthly_adjustment", 0),
            "dynamic_daily_adjustment", 0)

\* Lines 436-460 for one tier entry.
AdjustedEntry(limits, mtotal, mcap, dtotal, dcap) ==
    LET original_monthly == Get(limits, "monthly_calls", -1)
        original_daily == Get(limits, "daily_calls", -1)
        new_monthly_adjustment == RuleLoop(AdjustmentRules("monthly"), 1, original_monthly, mtotal, mcap)
        new_daily_adjustment == RuleLoop(AdjustmentRules("daily"), 1, original_daily, dtotal, dcap)
    IN  Put(Put(limits, "dynamic_monthly_adjustment", new_monthly_adjustment),
            "dynamic_daily_adjustment", new_daily_adjustment)

\* A pass, _adjust_tier_limits_dynamically(api_id), is a coroutine that is
\* suspended at each of its store calls: the read of the global config
\* document (line 391), in each of the two totals (lines 409, 410) the
\* listing of the users (371) and one read of a usage document per user
\* (375), the read of the api_limits document (419) and its write (464).
\* Its record holds where it is (pc, and the period of the running total),
\* its locals, the day at which each total read the clock (line 364), the
\* number of passes called so far, and the API, totals and caps of the last
\* pass that wrote.
IdleAgg ==
    [pc |-> "idle", passes |-> 0, api |-> "a1", wrote |-> FALSE, period |-> "month", i |-> 1,
     tm |-> 0, td |-> 0, mtotal |-> 0, dtotal |-> 0, mcap |-> 0, dcap |-> 0,
     before |-> NoDoc, last |-> NoDoc]

\* No pass is running.
PassIdle == agg.pc \in {"idle", "done", "raised"}

\* The store raises under an awaited call of the pass, which no try of the
\* pass encloses: the exception leaves the pass.
PassRaised(a) == [IdleAgg EXCEPT !.pc = "raised", !.passes = a.passes, !.api = a.api, !.last = a.last]

\* Lines 383-407: the call, the read of the global config document, the
\* caps and the two early returns.
PassCalled(api_id, fails) ==
    LET global_api_config == globalApis[api_id]
        global_monthly_cap == Get(global_api_config, "global_monthly_cap", DefaultGlobalMonthlyCap)
        global_daily_cap == Get(global_api_config, "global_daily_cap", DefaultGlobalDailyCap)
        a == [IdleAgg EXCEPT !.passes = agg.passes + 1, !.api = api_id, !.last = agg.last]
    IN  IF fails THEN PassRaised(a)
        ELSE IF ~Truthy(global_api_config) THEN [a EXCEPT !.pc = "done"]
        ELSE IF global_monthly_cap <= 0 /\ global_daily_cap <= 0 THEN [a EXCEPT !.pc = "done"]
        ELSE [a EXCEPT !.pc = "clock", !.period = "month",
                       !.mcap = global_monthly_cap, !.dcap = global_daily_cap]

\* _adjust_tier_limits_dynamically(api_id), up to the first total.
AdjustTierLimitsDynamically(api_ids) ==
    \E api_id \in api_ids, fails \in BOOLEAN :
        /\ PassIdle
        /\ agg.passes < MaxPasses
        /\ agg' = PassCalled(api_id, fails)
        /\ UNCHANGED <<now, usage, apiConfigs, apiLimits, globalApis, rst, chk, inc, incLast, usage0, ex, lim, adm, res>>

\* Lines 363-364: a total begins and takes its period string from the clock.
PassClock ==
    /\ agg.pc = "clock"
    /\ agg' = IF agg.period = "month"
              THEN [agg EXCEPT !.pc = "list", !.tm = now, !.mtotal = 0]
              ELSE [agg EXCEPT !.pc = "list", !.td = now, !.dtotal = 0]
    /\ UNCHANGED <<now, usage, apiConfigs, apiLimits, globalApis, rst, chk, inc, incLast, usage0, ex, lim, adm, res>>

\* The total of a period has returned (line 381): the daily total follows
\* the monthly one (409-410), the read of the api_limits document the daily one.
TotalReturned(a) ==
    IF a.period = "month" THEN [a EXCEPT !.pc = "clock", !.period = "day", !.i = 1]
    ELSE [a EXCEPT !.pc = "api_limits", !.i = 1]

\* Lines 370-371: the listing of the users collection.
PassListUsers ==
    /\ agg.pc = "list"
    /\ agg' = IF Len(UserList) = 0 THEN TotalReturned(agg) ELSE [agg EXCEPT !.pc = "sum", !.i = 1]
    /\ UNCHANGED <<now, usage, apiConfigs, apiLimits, globalApis, rst, chk, inc, incLast, usage0, ex, lim, adm, res>>

\* Lines 373-379: the read of the usage document of the next user, added to
\* the total when its marker is the period string of the total.
PassUsageRead ==
    /\ agg.pc = "sum"
    /\ LET usage_doc == usage[UserList[agg.i]][agg.api]
           current_period_str == IF agg.period = "month" THEN GetCurrentMonthStr(agg.tm)
                                 ELSE GetCurrentDayStr(agg.td)
           part == UsagePart(usage_doc, agg.period, current_period_str)
           added == IF agg.period = "month" THEN [agg EXCEPT !.mtotal = @ + part]
                    ELSE [agg EXCEPT !.dtotal = @ + part]
       IN  agg' = IF agg.i < Len(UserList) THEN [added EXCEPT !.i = @ + 1] ELSE TotalReturned(added)
    /\ UNCHANGED <<now, usage, apiConfigs, apiLimits, globalApis, rst, chk, inc, incLast, usage0, ex, lim, adm, res>>

\* Lines 419-420: the read of the api_limits document.
PassLimitsRead ==
    /\ agg.pc = "api_limits"
    /\ agg' = [agg EXCEPT !.pc = "write", !.before = GetApiLimitsConfig]
    /\ UNCHANGED <<now, usage, apiConfigs, apiLimits, globalApis, rst, chk, inc, incLast, usage0, ex, lim, adm, res>>

\* Lines 422-465: the adjustments of every tier of the map that was read, and
\* the write of the whole map.
PassWrite ==
    /\ agg.pc = "write"
    /\ apiLimits' = [limits |-> [tier_name \in DOMAIN agg.before |->
                                    AdjustedEntry(agg.before[tier_name], agg.mtotal, agg.mcap,
                                                  agg.dtotal, agg.dcap)]]
    /\ agg' = [agg EXCEPT !.pc = "done", !.wrote = TRUE,
                          !.last = [api |-> agg.api, mtotal |-> agg.mtotal, dtotal |-> agg.dtotal,
                                    mcap |-> agg.mcap, dcap |-> agg.dcap]]
    /\ UNCHANGED <<now, usage, apiConfigs, globalApis, rst, chk, inc, incLast, usage0, ex, lim, adm, res>>

\* The store raises under the call the pass is suspended at.
PassRaises ==
    /\ agg.pc \in {"list", "sum", "api_limits", "write"}
    /\ agg' = PassRaised(agg)
    /\ UNCHANGED <<now, usage, apiConfigs, apiLimits, globalApis, rst, chk, inc, incLast, usage0, ex, lim, adm, res>>
\* ---------------------------------------------------------------- wrapped_tool_executor
\* An executor that goes on to the tool whatever the check returned.
AfterCheck_IgnoresDenial(result) ==
    IF result \in {"True", "False"} THEN "tool" ELSE "raised"

\* An executor that catches the exception of the check and goes on.
AfterCheck_FailsOpen(result) ==
    IF result = "False" THEN "raised" ELSE "tool"

\* Lines 261-270: where the executor is after the check. An exception of the
\* check leaves the executor at line 261; a falsy result raises at line 264.
AfterCheck(result) ==
    IF result = "True" THEN "tool" ELSE "raised"

\* Lines 264-270: what the executor raises after the check.
RaisedAfterCheck(result) ==
    IF result = "True" THEN "none"
    ELSE IF result = "False" THEN "HTTPException 403 API_LIMIT_EXCEEDED"
    ELSE result

\* A run of the executor: where it is, the call of check_api_limit it
\* awaits or has awaited, the result of that call once it has ended, the
\* number of tool executions and what the run raised or returned.
IdleEx == [pc |-> "idle", call |-> IdleCall, check |-> "none", tools |-> 0, out |-> "none"]

\* Line 261: the run awaits its call c of check_api_limit, and goes on or
\* raises when the call has ended.
Checked(e, c) ==
    IF Running(c) THEN [e EXCEPT !.pc = "check", !.call = c]
    ELSE [e EXCEPT !.pc = AfterCheck(c.out.result), !.call = c, !.check = c.out.result,
                   !.out = RaisedAfterCheck(c.out.result)]

\* Lines 259-261: a run begins and calls check_api_limit for the profile of
\* the request; the call runs up to its first read, which may fail in the store.
ExecCheck(p, profiles) ==
    \E user_profile \in profiles, api_id \in {"a1"}, fails \in BOOLEAN :
        /\ ex[p].pc = "idle"
        /\ fails => Running(Called(user_profile, api_id))
        /\ ex' = [ex EXCEPT ![p] = Checked(ex[p], Begun(user_profile, api_id, fails))]
        /\ UNCHANGED <<now, usage, apiConfigs, apiLimits, globalApis, rst, chk, inc, incLast, usage0, agg, lim, adm, res>>

\* Line 261: the call of check_api_limit that the run awaits goes on with
\* its next read, which may fail in the store.
ExecCheckResume(p) ==
    \E fails \in BOOLEAN :
        /\ ex[p].pc = "check"
        /\ ex' = [ex EXCEPT ![p] = Checked(ex[p], Resumed(ex[p].call, fails))]
        /\ UNCHANGED <<now, usage, apiConfigs, apiLimits, globalApis, rst, chk, inc, incLast, usage0, agg, lim, adm, res>>

\* Line 288: the tool runs, and returns its output or raises.
ExecTool(p) ==
    \E tool_raises \in BOOLEAN :
        /\ ex[p].pc = "tool"
        /\ ex' = [ex EXCEPT ![p].tools = ex[p].tools + 1,
                            ![p].pc = IF tool_raises THEN "raised" ELSE "increment",
                            ![p].out = IF tool_raises THEN "ToolError" ELSE "none"]
        /\ UNCHANGED <<now, usage, apiConfigs, apiLimits, globalApis, rst, chk, inc, incLast, usage0, agg, lim, adm, res>>

\* Line 290: the call of increment_api_usage, up to its read.
ExecIncBegin(p) ==
    /\ ex[p].pc = "increment"
    /\ inc[p].done = 0
    /\ IncBegin(p)

\* Line 290 when the read of the increment fails in the store.
ExecIncReadFails(p) ==
    /\ ex[p].pc = "increment"
    /\ inc[p].done = 0
    /\ IncReadFails(p)

\* Lines 290-292: increment_api_usage has returned or raised; the executor
\* returns the tool's output unless the call raised.
ExecReturn(p) ==
    /\ ex[p].pc = "increment"
    /\ inc[p].pc = "idle"
    /\ inc[p].done = 1
    /\ ex' = [ex EXCEPT ![p].pc = IF IncrementPropagates(inc[p].logged) THEN "raised" ELSE "returned",
                        ![p].out = IF IncrementPropagates(inc[p].logged) THEN inc[p].logged
                                   ELSE "tool_output"]
    /\ UNCHANGED <<now, usage, apiConfigs, apiLimits, globalApis, rst, chk, inc, incLast, usage0, agg, lim, adm, res>>

\* ---------------------------------------------------------------- initial states
EmptyUserDocs == [u \in Users |-> [a \in Apis |-> NoDoc]]

IdleRst == [called |-> FALSE, in |-> NoDoc, t |-> 0, out |-> NoDoc]

IdleIncLast == [called |-> FALSE, proc |-> "p1", user |-> "u1", api |-> "a1", t |-> 0,
                read |-> NoDoc, after |-> NoDoc, logged |-> "none"]

IdleMon == [pc |-> "idle", global_apis |-> <<>>, i |-> 1, wrote |-> <<>>, logged |-> 0]

\* An operation on a user_api_configs or a global_api_configs document:
\* where it is, which it is, the document it is about, the data it holds for
\* its store call, and how it ended.
IdleCfgOp == [pc |-> "idle", name |-> "none", api |-> "a1", data |-> NoDoc, out |-> "none"]

\* upd is a call of update_api_limits: where it is, its arguments, the limits
\* map it read and the document before and after its write.
IdleLim ==
    [upd |-> [pc |-> "idle", tier |-> "free", limits |-> NoDoc, replace |-> FALSE,
              current |-> NoDoc, before |-> NoDoc, after |-> NoDoc],
     mon |-> IdleMon, ucfg |-> IdleCfgOp, gcfg |-> IdleCfgOp]

\* A call of an admin operation, of the profile route or of register_user is
\* a coroutine. pc is the awaited call it is suspended at (idle before its
\* first call, done once it has returned or raised); name, roles and input
\* are the operation, the roles of its caller and its request; local is what
\* it holds across the await; status is the HTTP status it ended with;
\* revoke is how its call of auth.revoke_refresh_tokens ended (none: not
\* called) and logged says that the failure was logged as a warning and
\* nothing else; out is the body it returned.
IdleRun == [pc |-> "idle", name |-> "none", roles |-> {}, input |-> NoDoc, local |-> NoDoc,
            status |-> 0, revoke |-> "none", logged |-> FALSE, out |-> NoDoc]

\* The system before any user is registered: no configuration document, no
\* user in Firebase Auth (uid), no profile document, no custom claims; calls
\* counts the operations called so far.
IdleAdm == [capabilities |-> NoDoc, tiers |-> NoDoc, uid |-> FALSE, profile |-> NoDoc,
            claims |-> NoDoc, revoked |-> FALSE, calls |-> 0, run |-> [p \in Procs |-> IdleRun]]

IdleRes == [called |-> FALSE, key |-> "none", tier |-> "free", roles |-> {}, perms |-> NoDoc,
            default |-> FALSE, out |-> [raised |-> FALSE, value |-> FALSE]]

\* What no operation of a specification touches.
Quiet ==
    /\ rst = IdleRst
    /\ chk = IdleCall
    /\ inc = [p \in Procs |-> IdleProc]
    /\ incLast = IdleIncLast
    /\ agg = IdleAgg
    /\ ex = [p \in Procs |-> IdleEx]
    /\ lim = IdleLim
    /\ adm = IdleAdm
    /\ res = IdleRes

\* ---------------------------------------------------------------- update_api_limits
\* An update that merges whatever replace_all_limits says.
UpdatedLimits_AlwaysMerges(current_limits, tier, limits, replace_all_limits) ==
    Put(current_limits, tier, Merged(Get(current_limits, tier, NoDoc), limits))

\* Lines 111-119: the limits map after the update of one tier.
UpdatedLimits(current_limits, tier, limits, replace_all_limits) ==
    IF replace_all_limits
    THEN Put(current_limits, tier, limits)
    ELSE Put(current_limits, tier, Merged(Get(current_limits, tier, NoDoc), limits))

\* The limits field of an ApiCallLimitUpdate, a Dict[str, int]: static
\* limits for the periods, and possibly an adjustment field.
LimitUpdates ==
    { MkDict(<<"monthly_calls", "daily_calls", "dynamic_monthly_adjustment">>, <<m, d, a>>) :
        m \in Opt({-1, MaxLimit}), d \in Opt({MaxLimit}), a \in Opt({-1}) }

\* Lines 108-109: the call and the awaited read of the api_limits document.
UpdRead(tiers, updates) ==
    \E tier \in tiers, limits \in updates, replace_all_limits \in BOOLEAN :
        /\ lim.upd.pc = "idle"
        /\ lim' = [lim EXCEPT !.upd = [pc |-> "read", tier |-> tier, limits |-> limits,
                                       replace |-> replace_all_limits,
                                       current |-> GetApiLimitsConfig,
                                       before |-> NoDoc, after |-> NoDoc]]
        /\ UNCHANGED <<now, usage, apiConfigs, apiLimits, globalApis, rst, chk, inc, incLast, usage0,
                       agg, ex, adm, res>>

\* Lines 120-121: an empty tier is answered with a 400 and nothing is written.
UpdRejected ==
    /\ lim.upd.pc = "read"
    /\ lim.upd.tier = ""
    /\ lim' = [lim EXCEPT !.upd.pc = "raised"]
    /\ UNCHANGED <<now, usage, apiConfigs, apiLimits, globalApis, rst, chk, inc, incLast, usage0,
                   agg, ex, adm, res>>

\* Lines 111-125: the update of the map that was read and the awaited write.
UpdWrite ==
    /\ lim.upd.pc = "read"
    /\ lim.upd.tier # ""
    /\ LET updated_limits == UpdatedLimits(lim.upd.current, lim.upd.tier, lim.upd.limits,
                                           lim.upd.replace)
       IN  /\ apiLimits' = [limits |-> updated_limits]
           /\ lim' = [lim EXCEPT !.upd.pc = "done", !.upd.before = GetApiLimitsConfig,
                                 !.upd.after = updated_limits]
    /\ UNCHANGED <<now, usage, apiConfigs, globalApis, rst, chk, inc, incLast, usage0, agg, ex, adm, res>>

\* ---------------------------------------------------------------- configuration documents
\* uuid.uuid4() as a document id: an id under which the store holds nothing
\* and that no running create has drawn.
FreshId(api_id) ==
    /\ ~Truthy(globalApis[api_id])
    /\ \A u \in Users : ~Truthy(usage[u][api_id]) /\ ~Truthy(apiConfigs[u][api_id])
    /\ \A op \in {lim.ucfg, lim.gcfg} : op.pc = "set" => op.api # api_id

\* A document with last_updated_at set to the clock value t.
Stamped(data, t) == Put(data, "last_updated_at", t)

\* A document with its id, and created_at and last_updated_at set to the
\* clock value t.
Created(data, api_id, t) == Stamped(Put(Put(data, "id", api_id), "created_at", t), t)

\* An operation on a configuration document: the awaited store call it is
\* suspended at or how it ended, its name, the id of the document, the data
\* it holds for the store call, and what it returned or raised.
CfgOp(pc, name, api_id, data, out) == [pc |-> pc, name |-> name, api |-> api_id, data |-> data, out |-> out]

\* create_user_api_config(user_id, api_config_data), lines 292-297: a new id
\* is drawn and the document is stamped with the clock of the call; the
\* call then awaits the write.
CreateUserApiConfig(datas) ==
    \E api_config_data \in datas, api_id \in Apis :
        /\ lim.ucfg.pc = "idle"
        /\ FreshId(api_id)
        /\ lim' = [lim EXCEPT !.ucfg = CfgOp("set", "create_user_api_config", api_id,
                                             Created(api_config_data, api_id, now), "none")]
        /\ UNCHANGED <<now, usage, apiConfigs, apiLimits, globalApis, rst, chk, inc, incLast, usage0,
                       agg, ex, adm, res>>

\* update_user_api_config(user_id, api_id, update_data), lines 324-325:
\* update_data is stamped with the clock of the call; the call then awaits
\* the update.
UpdateUserApiConfig(datas) ==
    \E api_id \in {"a1"}, update_data \in datas :
        /\ lim.ucfg.pc = "idle"
        /\ lim' = [lim EXCEPT !.ucfg = CfgOp("update", "update_user_api_config", api_id,
                                             Stamped(update_data, now), "none")]
        /\ UNCHANGED <<now, usage, apiConfigs, apiLimits, globalApis, rst, chk, inc, incLast, usage0,
                       agg, ex, adm, res>>

\* The awaited store call of an operation on a document of user u1 is made,
\* with the data the call stamped when it began. Lines 297-304: the new
\* document is stored and returned. Lines 325-331: the store merges the
\* fields into the document; for a document that does not exist it creates
\* one (upserts) or raises, as the store is set up; the call then awaits
\* the read of the document. Lines 331-339: the document as it is now is
\* returned, and a 404 is raised when there is none.
UserApiConfigResume ==
    \E user_id \in {"u1"}, upserts \in BOOLEAN :
        LET op == lim.ucfg
            doc == apiConfigs[user_id][op.api]
        IN  /\ op.pc \in {"set", "update", "get"}
            /\ op.pc # "update" => upserts
            /\ apiConfigs' =
                   [apiConfigs EXCEPT ![user_id][op.api] =
                       IF op.pc = "set" THEN op.data
                       ELSE IF op.pc = "update" /\ (Truthy(doc) \/ upserts) THEN Merged(doc, op.data)
                       ELSE doc]
            /\ lim' = [lim EXCEPT !.ucfg =
                   IF op.pc = "set" THEN CfgOp("done", op.name, op.api, NoDoc, "returned")
                   ELSE IF op.pc = "update"
                   THEN (IF Truthy(doc) \/ upserts THEN CfgOp("get", op.name, op.api, NoDoc, "none")
                         ELSE CfgOp("raised", op.name, op.api, NoDoc, "NotFound"))
                   ELSE IF Truthy(doc) THEN CfgOp("done", op.name, op.api, NoDoc, "returned")
                   ELSE CfgOp("raised", op.name, op.api, NoDoc, "HTTPException 404")]
            /\ UNCHANGED <<now, usage, apiLimits, globalApis, rst, chk, inc, incLast, usage0, agg, ex,
                           adm, res>>

\* delete_user_api_config(user_id, api_id) (lines 341-348): one awaited
\* store call, with nothing before it.
DeleteUserApiConfig ==
    \E user_id \in {"u1"}, api_id \in {"a1"} :
        /\ lim.ucfg.pc = "idle"
        /\ apiConfigs' = [apiConfigs EXCEPT ![user_id][api_id] = NoDoc]
        /\ lim' = [lim EXCEPT !.ucfg = CfgOp("done", "delete_user_api_config", api_id, NoDoc, "returned")]
        /\ UNCHANGED <<now, usage, apiLimits, globalApis, rst, chk, inc, incLast, usage0, agg, ex, adm, res>>

\* create_global_api_config(api_config), lines 54-58: a new id is drawn,
\* which the document carries as its id field, and the document is stamped
\* with the clock of the call; the call then awaits the write. The requests
\* are GlobalApiConfigCreate.model_dump() and GlobalApiConfigUpdate.model_dump(
\* exclude_unset=True): fields the model declares (admin_models.py 71-79,
\* 89-94). The global caps are no field of either model.
CreateGlobalApiConfig ==
    \E api_config \in { [name |-> "api"] }, api_id \in Apis :
        /\ lim.gcfg.pc = "idle"
        /\ FreshId(api_id)
        /\ lim' = [lim EXCEPT !.gcfg = CfgOp("set", "create_global_api_config", api_id,
                                             Created(api_config, api_id, now), "none")]
        /\ UNCHANGED <<now, usage, apiConfigs, apiLimits, globalApis, rst, chk, inc, incLast, usage0,
                       agg, ex, adm, res>>

\* update_global_api_config(api_id, api_config_update), lines 75-76:
\* update_data is stamped with the clock of the call; the call then awaits
\* the update.
UpdateGlobalApiConfig ==
    \E api_id \in {"a1"}, update_data \in { [name |-> "renamed"] } :
        /\ lim.gcfg.pc = "idle"
        /\ lim' = [lim EXCEPT !.gcfg = CfgOp("update", "update_global_api_config", api_id,
                                             Stamped(update_data, now), "none")]
        /\ UNCHANGED <<now, usage, apiConfigs, apiLimits, globalApis, rst, chk, inc, incLast, usage0,
                       agg, ex, adm, res>>

\* The awaited store call of an operation on a global API document is made,
\* with the data the call stamped when it began: the write of lines 60-66,
\* the update of lines 78-82, merged or upserted by the store as for a
\* user's document, and the read of lines 83-90 with its 404.
GlobalApiConfigResume ==
    \E upserts \in BOOLEAN :
        LET op == lim.gcfg
            doc == globalApis[op.api]
        IN  /\ op.pc \in {"set", "update", "get"}
            /\ op.pc # "update" => upserts
            /\ globalApis' =
                   [globalApis EXCEPT ![op.api] =
                       IF op.pc = "set" THEN op.data
                       ELSE IF op.pc = "update" /\ (Truthy(doc) \/ upserts) THEN Merged(doc, op.data)
                       ELSE doc]
            /\ lim' = [lim EXCEPT !.gcfg =
                   IF op.pc = "set" THEN CfgOp("done", op.name, op.api, NoDoc, "returned")
                   ELSE IF op.pc = "update"
                   THEN (IF Truthy(doc) \/ upserts THEN CfgOp("get", op.name, op.api, NoDoc, "none")
                         ELSE CfgOp("raised", op.name, op.api, NoDoc, "NotFound"))
                   ELSE IF Truthy(doc) THEN CfgOp("done", op.name, op.api, NoDoc, "returned")
                   ELSE CfgOp("raised", op.name, op.api, NoDoc, "HTTPException 404")]
            /\ UNCHANGED <<now, usage, apiConfigs, apiLimits, rst, chk, inc, incLast, usage0, agg, ex,
                           adm, res>>

\* delete_global_api_config(api_id) (lines 92-98): one awaited store call,
\* with nothing before it.
DeleteGlobalApiConfig ==
    \E api_id \in {"a1"} :
        /\ lim.gcfg.pc = "idle"
        /\ globalApis' = [globalApis EXCEPT ![api_id] = NoDoc]
        /\ lim' = [lim EXCEPT !.gcfg = CfgOp("done", "delete_global_api_config", api_id, NoDoc, "returned")]
        /\ UNCHANGED <<now, usage, apiConfigs, apiLimits, rst, chk, inc, incLast, usage0, agg, ex, adm, res>>

\* ---------------------------------------------------------------- _monitor_global_api_usage_task
\* Line 474: the documents of global_api_configs, in the order the store
\* lists them.
MonitorStart ==
    \E order \in {<<"a1", "a2">>, <<"a2", "a1">>} :
        /\ lim.mon.pc = "idle"
        /\ lim' = [lim EXCEPT !.mon = [IdleMon EXCEPT
                      !.pc = "loop",
                      !.global_apis = SelectSeq([k \in 1..2 |-> globalApis[order[k]]], Truthy)]]
        /\ UNCHANGED <<now, usage, apiConfigs, apiLimits, globalApis, rst, chk, inc, incLast, usage0,
                       agg, ex, adm, res>>

\* Lines 475-483: one turn of the loop. A document with an id gets its pass,
\* which the task awaits: the pass runs up to the await after the read of
\* its global config document; a document without an id is passed over.
MonitorStep ==
    \E fails \in BOOLEAN :
        /\ lim.mon.pc = "loop"
        /\ lim.mon.i <= Len(lim.mon.global_apis)
        /\ PassIdle
        /\ LET api == lim.mon.global_apis[lim.mon.i]
               api_id == Get(api, "id", "")
           IN  IF api_id = ""
               THEN /\ ~fails
                    /\ lim' = [lim EXCEPT !.mon.i = @ + 1]
                    /\ UNCHANGED agg
               ELSE /\ agg' = PassCalled(api_id, fails)
                    /\ lim' = [lim EXCEPT !.mon.pc = "pass"]
        /\ UNCHANGED <<now, usage, apiConfigs, apiLimits, globalApis, rst, chk, inc, incLast, usage0, ex, adm, res>>

\* Lines 478-481: the awaited pass has returned, or has raised: the except
\* clause logs the exception and the loop goes on.
MonitorResume ==
    /\ lim.mon.pc = "pass"
    /\ PassIdle
    /\ lim' = [lim EXCEPT !.mon.pc = "loop", !.mon.i = @ + 1,
                          !.mon.wrote = IF agg.wrote THEN Append(@, agg.api) ELSE @,
                          !.mon.logged = IF agg.pc = "raised" THEN @ + 1 ELSE @]
    /\ UNCHANGED <<now, usage, apiConfigs, apiLimits, globalApis, rst, chk, inc, incLast, usage0,
                   agg, ex, adm, res>>

\* Line 484: the loop is through.
MonitorFinish ==
    /\ lim.mon.pc = "loop"
    /\ lim.mon.i > Len(lim.mon.global_apis)
    /\ lim' = [lim EXCEPT !.mon.pc = "done"]
    /\ UNCHANGED <<now, usage, apiConfigs, apiLimits, globalApis, rst, chk, inc, incLast, usage0,
                   agg, ex, adm, res>>

\* ---------------------------------------------------------------- admin operations
\* The administrators that call the service: an admin, and the creator.
Admins == { [user_id |-> "adm", roles |-> r] : r \in {{"user", "admin"}, {"user", "admin", "creator"}} }

\* "creator" not in current_admin.roles, negated.
IsCreator_AdminSuffices(current_admin) == "admin" \in current_admin.roles

IsCreator(current_admin) == "creator" \in current_admin.roles

\* key.startswith(prefix).
StartsWith(key, prefix) == Len(key) >= Len(prefix) /\ SubSeq(key, 1, Len(prefix)) = prefix

\* How a call of auth.get_user or auth.set_custom_user_claims for the user
\* ends: it returns, only for a user that Firebase Auth holds, or raises a
\* UserNotFoundError or another FirebaseError.
AuthOutcomes ==
    {"UserNotFoundError", "FirebaseError"} \cup (IF adm.uid THEN {"ok"} ELSE {})

\* auth.revoke_refresh_tokens: the same, or an exception that is no
\* FirebaseError.
RevokeOutcomes == AuthOutcomes \cup {"ValueError"}

\* The auth calls of one step, in the order the code makes them; the first
\* that raises ends the step, so a step has at most one that does: none, or
\* the call and its exception.
AuthFaults ==
    {[call |-> "none", exc |-> "ok"]}
    \cup [call : {"get_user", "set_custom_user_claims"}, exc : AuthOutcomes \ {"ok"}]
    \cup [call : {"revoke_refresh_tokens"}, exc : RevokeOutcomes \ {"ok"}]

\* How the call ends under the fault; it returns only for a user that
\* Firebase Auth holds.
Outcome(fault, call) ==
    IF fault.call = call THEN fault.exc ELSE IF adm.uid THEN "ok" ELSE "UserNotFoundError"

\* The status of an operation left by an exception of an auth call, under
\* the handlers 'except <module>.UserNotFoundError' (404) and 'except
\* Exception' (500). firebase_admin.auth defines UserNotFoundError (user_api.py
\* line 122); firebase_admin.exceptions does not (admin_service.py lines 154
\* and 222), so that evaluating the clause for any exception raises
\* AttributeError, which leaves the function before 'except Exception' is
\* tried: a 500.
RaisedStatus(module, exc) == IF module = "auth" /\ exc = "UserNotFoundError" THEN 404 ELSE 500

\* user_manager.get_user(user_id): the stored profile, None, or an exception.
ReadOutcomes == {"none", "raised"} \cup (IF Truthy(adm.profile) THEN {"found"} ELSE {})

\* user_manager.update_user_profile(user_id, data): the fields are stored in
\* the profile document of the user, or the call answers success False, or
\* it raises.
UpdateOutcomes == {"failed", "raised"} \cup (IF Truthy(adm.profile) THEN {"stored"} ELSE {})

\* A process may be called when no call of its own is suspended.
Callable(p) == adm.run[p].pc \in {"idle", "done"} /\ adm.calls < MaxAdminCalls

\* The call of operation name by who, in process p.
Start(p, name, who, input) ==
    [adm EXCEPT !.calls = @ + 1,
                !.run[p] = [IdleRun EXCEPT !.pc = "called", !.name = name, !.roles = who.roles,
                                           !.input = input]]

\* The operation of p returns body out, or raises, with an HTTP status.
End(a, p, http_status, out) ==
    [a EXCEPT !.run[p].pc = "done", !.run[p].status = http_status, !.run[p].local = NoDoc,
              !.run[p].out = out]

\* The operation of p is suspended at an awaited call, holding local.
Await(a, p, call, local) == [a EXCEPT !.run[p].pc = call, !.run[p].local = local]

\* auth.revoke_refresh_tokens(user_id) by p ended as revoke says; caught:
\* the call is in a try of its own that logs a FirebaseError.
Revoke(a, p, revoke, caught) ==
    [a EXCEPT !.revoked = IF revoke = "ok" THEN TRUE ELSE @,
              !.run[p].revoke = revoke,
              !.run[p].logged = caught /\ revoke \in {"FirebaseError", "UserNotFoundError"}]

\* ---- register_user (auth_api.py lines 31-102)
\* Lines 40-54: create_user, which fails for an email that is registered,
\* and set_custom_user_claims with the claims of a new user (47-49); then
\* create_user_profile is awaited. The handlers of lines 71 and 92 await
\* log_event before they raise 400 or 500.
RegisterUser ==
    \E p \in Procs, created \in {"ok", "FirebaseError", "ValueError"},
       set \in {"ok", "FirebaseError", "ValueError"} :
        LET a0 == Start(p, "register_user", [roles |-> {}], NoDoc)
            handled(a, exc) ==
                Await([a EXCEPT !.run[p].status =
                                    IF exc \in {"FirebaseError", "UserNotFoundError"} THEN 400 ELSE 500],
                      p, "log_event", NoDoc)
            a1 == [a0 EXCEPT !.uid = TRUE]
            a2 == [a1 EXCEPT !.claims = [tier |-> "free", roles |-> {"user"}]]
        IN  /\ Callable(p)
            /\ created = "ok" => ~adm.uid
            /\ adm' = IF created # "ok" THEN handled(a0, created)
                      ELSE IF set # "ok" THEN handled(a1, set)
                      ELSE Await(a2, p, "create_user_profile", NoDoc)
            /\ UNCHANGED <<now, usage, apiConfigs, apiLimits, globalApis, rst, chk, inc, incLast,
                           usage0, agg, ex, lim, res>>

\* Lines 54-63: the profile is stored, or the call raises (line 92). Lines
\* 63-70, 83-91, 94-102: log_event returns and the route answers; a
\* log_event of line 63 that raises is handled at line 92.
RegisterUserResume ==
    \E p \in Procs, fails \in BOOLEAN :
        LET new_profile == [user_id |-> "u1", email |-> "a@b.c", username |-> "name",
                            tier |-> "free", roles |-> {"user"}]
            profiled ==
                IF fails THEN Await([adm EXCEPT !.run[p].status = 500], p, "log_event", NoDoc)
                ELSE Await([adm EXCEPT !.profile = new_profile, !.run[p].status = 201],
                           p, "log_event", NoDoc)
            logged ==
                IF fails /\ adm.run[p].status = 201
                THEN Await([adm EXCEPT !.run[p].status = 500], p, "log_event", NoDoc)
                ELSE End(adm, p, IF fails THEN 500 ELSE adm.run[p].status, NoDoc)
        IN  /\ adm.run[p].name = "register_user"
            /\ adm.run[p].pc \in {"create_user_profile", "log_event"}
            /\ adm' = IF adm.run[p].pc = "create_user_profile" THEN profiled ELSE logged
            /\ UNCHANGED <<now, usage, apiConfigs, apiLimits, globalApis, rst, chk, inc, incLast,
                           usage0, agg, ex, lim, res>>

\* ---- update_user_status_admin (admin_service.py lines 107-138)
\* Lines 114-130. A UserProfile has no get, so the authorization line raises
\* an AttributeError for every admin that is not the creator, inside the
\* try. update_user_profile is awaited (118); when it has stored the status
\* the tokens are revoked (123-128), where only a FirebaseError is caught,
\* and the call awaits get_user (130).
UpdateUserStatusAdmin ==
    \E p \in Procs, current_admin \in Admins, new_status \in {"active", "disabled", "suspended"},
       update \in UpdateOutcomes, revoke \in RevokeOutcomes :
        LET a0 == Start(p, "update_user_status_admin", current_admin, [new_status |-> new_status])
            a1 == [a0 EXCEPT !.profile = Put(@, "status", new_status)]
            revokes == new_status \in {"disabled", "suspended"}
            a2 == IF revokes THEN Revoke(a1, p, revoke, TRUE) ELSE a1
        IN  /\ Callable(p)
            /\ adm' = IF ~IsCreator(current_admin) THEN End(a0, p, 500, NoDoc)
                      ELSE IF update = "raised" THEN End(a0, p, 500, NoDoc)
                      ELSE IF update = "failed" THEN End(a0, p, 400, NoDoc)
                      ELSE IF revokes /\ revoke \notin {"ok", "FirebaseError", "UserNotFoundError"}
                      THEN End(a2, p, 500, NoDoc)
                      ELSE Await(a2, p, "get_user", NoDoc)
            /\ UNCHANGED <<now, usage, apiConfigs, apiLimits, globalApis, rst, chk, inc, incLast,
                           usage0, agg, ex, lim, res>>

\* Lines 130-133: the profile that get_user gives now is returned.
UpdateUserStatusAdminResume ==
    \E p \in Procs, read \in ReadOutcomes :
        /\ adm.run[p].name = "update_user_status_admin" /\ adm.run[p].pc = "get_user"
        /\ adm' = IF read = "found" THEN End(adm, p, 200, adm.profile) ELSE End(adm, p, 500, NoDoc)
        /\ UNCHANGED <<now, usage, apiConfigs, apiLimits, globalApis, rst, chk, inc, incLast, usage0,
                       agg, ex, lim, res>>

\* ---- purge_user_sessions (admin_service.py lines 140-158)
\* The function awaits nothing. Line 149 raises the AttributeError of
\* UserProfile.get for an admin that is not the creator, and an exception
\* of line 152 reaches the clause of line 154: a 500 either way.
PurgeUserSessions ==
    \E p \in Procs, current_admin \in Admins, revoke \in RevokeOutcomes :
        LET a0 == Start(p, "purge_user_sessions", current_admin, NoDoc)
        IN  /\ Callable(p)
            /\ adm' = IF ~IsCreator(current_admin) THEN End(a0, p, 500, NoDoc)
                      ELSE End(Revoke(a0, p, revoke, FALSE), p,
                               IF revoke = "ok" THEN 200 ELSE RaisedStatus("exceptions", revoke), NoDoc)
            /\ UNCHANGED <<now, usage, apiConfigs, apiLimits, globalApis, rst, chk, inc, incLast,
                           usage0, agg, ex, lim, res>>

\* ---- update_user_profile_admin (admin_service.py lines 55-105)
\* Lines 62-90, for the fields that user_update.model_dump(exclude_unset=True)
\* gives: get_user is awaited; the checks of lines 72-87 call
\* current_admin.get for an admin that is not the creator, which raises the
\* AttributeError, except for a roles list that is empty.
UpdateUserProfileAdmin ==
    \E p \in Procs, current_admin \in Admins, read \in ReadOutcomes,
       st \in Opt({"disabled"}), t \in Opt({"pro"}), r \in Opt({{}, {"user", "admin"}}) :
        LET update_data == MkDict(<<"status", "tier", "roles">>, <<st, t, r>>)
            a0 == Start(p, "update_user_profile_admin", current_admin, update_data)
            asks == \/ "tier" \in DOMAIN update_data
                    \/ "roles" \in DOMAIN update_data /\ update_data["roles"] # {}
                    \/ "status" \in DOMAIN update_data
        IN  /\ Callable(p)
            /\ adm' = IF read = "raised" THEN End(a0, p, 500, NoDoc)
                      ELSE IF read = "none" THEN End(a0, p, 404, NoDoc)
                      ELSE IF ~IsCreator(current_admin) /\ asks THEN End(a0, p, 500, NoDoc)
                      ELSE Await(a0, p, "update_user_profile", NoDoc)
            /\ UNCHANGED <<now, usage, apiConfigs, apiLimits, globalApis, rst, chk, inc, incLast,
                           usage0, agg, ex, lim, res>>

\* Lines 90-96: the update is stored, or answers success False (400), or
\* raises. Lines 96-100: the profile that get_user gives now is returned.
UpdateUserProfileAdminResume ==
    \E p \in Procs :
        /\ adm.run[p].name = "update_user_profile_admin"
        /\ \/ /\ adm.run[p].pc = "update_user_profile"
              /\ \E update \in UpdateOutcomes :
                    adm' = IF update = "raised" THEN End(adm, p, 500, NoDoc)
                           ELSE IF update = "failed" THEN End(adm, p, 400, NoDoc)
                           ELSE Await([adm EXCEPT !.profile = Merged(@, adm.run[p].input)],
                                      p, "get_user", NoDoc)
           \/ /\ adm.run[p].pc = "get_user"
              /\ \E read \in ReadOutcomes :
                    adm' = IF read = "found" THEN End(adm, p, 200, adm.profile)
                           ELSE End(adm, p, 500, NoDoc)
        /\ UNCHANGED <<now, usage, apiConfigs, apiLimits, globalApis, rst, chk, inc, incLast, usage0,
                       agg, ex, lim, res>>

\* ---- grant_admin_access (admin_service.py lines 188-226)
\* Lines 201-210: the claims that grant_admin_access sets. Any key that
\* starts with can_ counts, whatever its value.
NewClaims(current_claims, permissions, replace_all) ==
    LET new_claims == IF replace_all THEN permissions ELSE Merged(current_claims, permissions)
    IN  IF (\E key \in DOMAIN new_claims : StartsWith(key, "can_"))
           /\ "admin" \notin Get(new_claims, "roles", {})
        THEN Put(new_claims, "roles", Get(new_claims, "roles", {}) \cup {"admin"})
        ELSE new_claims

\* Lines 194-220: the 403 is raised before the try; auth.get_user,
\* set_custom_user_claims and revoke_refresh_tokens are called one after the
\* other with no try of their own, and then update_user_profile is awaited.
GrantAdminAccess ==
    \E p \in Procs, current_admin \in Admins, replace_all \in BOOLEAN, fault \in AuthFaults,
       permissions \in {NoDoc, [can_change_user_status |-> TRUE], [roles |-> {"user"}],
                        [can_manage_tier_pro |-> FALSE]} :
        LET got == Outcome(fault, "get_user")
            set == Outcome(fault, "set_custom_user_claims")
            revoke == Outcome(fault, "revoke_refresh_tokens")
            a0 == Start(p, "grant_admin_access", current_admin,
                        [permissions |-> permissions, replace_all |-> replace_all])
            new_claims == NewClaims(adm.claims, permissions, replace_all)
            a1 == [a0 EXCEPT !.claims = new_claims]
            a2 == Revoke(a1, p, revoke, FALSE)
        IN  /\ Callable(p)
            /\ adm' = IF ~IsCreator(current_admin) THEN End(a0, p, 403, NoDoc)
                      ELSE IF got # "ok" THEN End(a0, p, RaisedStatus("exceptions", got), NoDoc)
                      ELSE IF set # "ok" THEN End(a0, p, RaisedStatus("exceptions", set), NoDoc)
                      ELSE IF revoke # "ok" THEN End(a2, p, RaisedStatus("exceptions", revoke), NoDoc)
                      ELSE Await(a2, p, "update_user_profile", new_claims)
            /\ UNCHANGED <<now, usage, apiConfigs, apiLimits, globalApis, rst, chk, inc, incLast,
                           usage0, agg, ex, lim, res>>

\* Line 220: the roles of the claims are stored in the profile; what
\* update_user_profile answers is not looked at.
GrantAdminAccessResume ==
    \E p \in Procs, update \in UpdateOutcomes :
        LET roles == Get(adm.run[p].local, "roles", {"user"})
        IN  /\ adm.run[p].name = "grant_admin_access" /\ adm.run[p].pc = "update_user_profile"
            /\ adm' = IF update = "raised" THEN End(adm, p, 500, NoDoc)
                      ELSE IF update = "failed" THEN End(adm, p, 200, NoDoc)
                      ELSE End([adm EXCEPT !.profile = Put(@, "roles", roles)], p, 200, NoDoc)
            /\ UNCHANGED <<now, usage, apiConfigs, apiLimits, globalApis, rst, chk, inc, incLast,
                           usage0, agg, ex, lim, res>>

\* ---- PUT /{user_id} (user_api.py lines 59-126)
\* Lines 70-96 for user u1, called by the user, another user or an admin,
\* with the fields that user_update.model_dump(exclude_unset=True) gives.
\* The 403 of line 72 is raised before the try; an HTTPException raised
\* inside it (lines 81, 88, 90, 93) is caught at line 124 and leaves as a 500.
UpdateUserProfile ==
    \E p \in Procs, read \in ReadOutcomes,
       current_user \in { [user_id |-> "u1", roles |-> {"user"}], [user_id |-> "u2", roles |-> {"user"}],
                          [user_id |-> "adm", roles |-> {"user", "admin"}] },
       st \in Opt({"disabled"}), t \in Opt({"pro"}), r \in Opt({{"user", "admin"}}) :
        LET update_data == MkDict(<<"status", "tier", "roles">>, <<st, t, r>>)
            a0 == Start(p, "update_user_profile", current_user, update_data)
            is_admin == "admin" \in current_user.roles
        IN  /\ Callable(p)
            /\ adm' = IF current_user.user_id # "u1" /\ ~is_admin THEN End(a0, p, 403, NoDoc)
                      ELSE IF read # "found" THEN End(a0, p, 500, NoDoc)
                      ELSE IF ~is_admin /\ DOMAIN update_data \cap {"tier", "roles"} # {}
                      THEN End(a0, p, 500, NoDoc)
                      ELSE IF ~is_admin /\ "email" \in DOMAIN update_data
                              /\ update_data["email"] # adm.profile["email"]
                      THEN End(a0, p, 500, NoDoc)
                      ELSE Await(a0, p, "update_user_profile", NoDoc)
            /\ UNCHANGED <<now, usage, apiConfigs, apiLimits, globalApis, rst, chk, inc, incLast,
                           usage0, agg, ex, lim, res>>

\* Lines 96-116: what update_user_profile answers is not looked at; for a
\* tier or roles in the request the claims are read, merged, set and the
\* tokens revoked, with no try of their own; then get_user is awaited.
\* Lines 116-121: the profile that get_user gives now is returned; None has
\* no get (line 117).
UpdateUserProfileResume ==
    \E p \in Procs :
        /\ adm.run[p].name = "update_user_profile"
        /\ \/ /\ adm.run[p].pc = "update_user_profile"
              /\ \E update \in UpdateOutcomes, fault \in AuthFaults :
                    LET got == Outcome(fault, "get_user")
                        set == Outcome(fault, "set_custom_user_claims")
                        revoke == Outcome(fault, "revoke_refresh_tokens")
                        update_data == adm.run[p].input
                        claimed == DOMAIN update_data \cap {"tier", "roles"}
                        a1 == IF update = "stored" THEN [adm EXCEPT !.profile = Merged(@, update_data)]
                              ELSE adm
                        new_claims == Merged(adm.claims, [k \in claimed |-> update_data[k]])
                        a2 == [a1 EXCEPT !.claims = new_claims]
                        a3 == Revoke(a2, p, revoke, FALSE)
                    IN  adm' = IF update = "raised" THEN End(adm, p, 500, NoDoc)
                               ELSE IF claimed = {} THEN Await(a1, p, "get_user", NoDoc)
                               ELSE IF got # "ok" THEN End(a1, p, RaisedStatus("auth", got), NoDoc)
                               ELSE IF set # "ok" THEN End(a1, p, RaisedStatus("auth", set), NoDoc)
                               ELSE IF revoke # "ok" THEN End(a3, p, RaisedStatus("auth", revoke), NoDoc)
                               ELSE Await(a3, p, "get_user", NoDoc)
           \/ /\ adm.run[p].pc = "get_user"
              /\ \E read \in ReadOutcomes :
                    adm' = IF read = "found" THEN End(adm, p, 200, adm.profile)
                           ELSE End(adm, p, 500, NoDoc)
        /\ UNCHANGED <<now, usage, apiConfigs, apiLimits, globalApis, rst, chk, inc, incLast, usage0,
                       agg, ex, lim, res>>

\* ---- rbac_capabilities and tiers (admin_service.py lines 230-320)
\* get_rbac_capabilities' reading of the stored document (lines 253-254).
GetRbacCapabilities == IF Truthy(adm.capabilities) THEN Get(adm.capabilities, "capabilities", NoDoc) ELSE NoDoc

GetTierHierarchy == IF Truthy(adm.tiers) THEN Get(adm.tiers, "tiers", NoDoc) ELSE NoDoc

\* Lines 256-267: the capabilities map after the update. The assignments of
\* lines 262 and 265 add the field to an entry that lacks it.
UpdatedCapabilities(current_capabilities, capability_update) ==
    LET key == capability_update.capability_key
    IN  IF key # Absent /\ key[1] # ""
        THEN LET entry == Get(current_capabilities, key[1], [default |-> FALSE, roles |-> NoDoc])
                 e1 == IF capability_update.default_value # Absent
                       THEN Put(entry, "default", capability_update.default_value[1]) ELSE entry
                 e2 == IF capability_update.roles # Absent
                       THEN Put(e1, "roles", capability_update.roles[1]) ELSE e1
             IN  Put(current_capabilities, key[1], e2)
        ELSE IF capability_update.full_capabilities # Absent
             THEN capability_update.full_capabilities[1] ELSE NoDoc

\* Lines 249-269, for a CapabilityUpdate that names one capability with its
\* fields or gives the full map: the 403 is raised before the try; the
\* document is read (253), which may fail, and the call awaits the write of
\* the map it made of what it read.
UpdateRbacCapabilities(procs) ==
    \E p \in procs, current_admin \in Admins, fails \in BOOLEAN,
       capability_update \in
           { u \in [capability_key : Opt({"c1"}), default_value : Opt({TRUE}),
                    roles : Opt({NoDoc, [admin |-> TRUE], [admin |-> TRUE, support |-> FALSE]}),
                    full_capabilities :
                        Opt({[c2 |-> [default |-> TRUE, roles |-> NoDoc, tiers |-> [pro |-> FALSE]]]})] :
               IF u.capability_key = Absent THEN u.default_value = Absent /\ u.roles = Absent
               ELSE u.full_capabilities = Absent } :
        LET a0 == Start(p, "update_rbac_capabilities", current_admin, NoDoc)
        IN  /\ Callable(p)
            /\ adm' = IF ~IsCreator(current_admin) THEN End(a0, p, 403, NoDoc)
                      ELSE IF fails THEN End(a0, p, 500, NoDoc)
                      ELSE Await(a0, p, "set_global_config",
                                 UpdatedCapabilities(GetRbacCapabilities, capability_update))
            /\ UNCHANGED <<now, usage, apiConfigs, apiLimits, globalApis, rst, chk, inc, incLast,
                           usage0, agg, ex, lim, res>>

\* Lines 269-271: the map is written, over whatever is stored now, and
\* returned; or the write fails.
UpdateRbacCapabilitiesResume ==
    \E p \in Procs, fails \in BOOLEAN :
        LET updated_capabilities == adm.run[p].local
        IN  /\ adm.run[p].name = "update_rbac_capabilities" /\ adm.run[p].pc = "set_global_config"
            /\ adm' = IF fails THEN End(adm, p, 500, NoDoc)
                      ELSE End([adm EXCEPT !.capabilities = [capabilities |-> updated_capabilities]],
                               p, 200, updated_capabilities)
            /\ UNCHANGED <<now, usage, apiConfigs, apiLimits, globalApis, rst, chk, inc, incLast,
                           usage0, agg, ex, lim, res>>

\* Lines 302-313: the tiers map after the update. The assignments of lines
\* 308 and 311 add the field to an entry that lacks it.
UpdatedTiers(current_tiers, tier_update) ==
    LET name == tier_update.tier_name
    IN  IF name # Absent /\ name[1] # ""
        THEN LET entry == Get(current_tiers, name[1], [level |-> 0, description |-> ""])
                 e1 == IF tier_update.level # Absent
                       THEN Put(entry, "level", tier_update.level[1]) ELSE entry
                 e2 == IF tier_update.description # Absent
                       THEN Put(e1, "description", tier_update.description[1]) ELSE e1
             IN  Put(current_tiers, name[1], e2)
        ELSE IF tier_update.full_tiers # Absent THEN tier_update.full_tiers[1] ELSE NoDoc

\* Lines 295-315, as lines 249-269, for a TierUpdate that names one tier
\* with its fields or gives the full map.
UpdateTierHierarchy ==
    \E p \in Procs, current_admin \in Admins, fails \in BOOLEAN,
       tier_update \in
           { u \in [tier_name : Opt({"pro"}), level : Opt({1}), description : Opt({"paid"}),
                    full_tiers : Opt({[free |-> [level |-> 0, description |-> "basic"]]})] :
               IF u.tier_name = Absent THEN u.level = Absent /\ u.description = Absent
               ELSE u.full_tiers = Absent } :
        LET a0 == Start(p, "update_tier_hierarchy", current_admin, NoDoc)
        IN  /\ Callable(p)
            /\ adm' = IF ~IsCreator(current_admin) THEN End(a0, p, 403, NoDoc)
                      ELSE IF fails THEN End(a0, p, 500, NoDoc)
                      ELSE Await(a0, p, "set_global_config", UpdatedTiers(GetTierHierarchy, tier_update))
            /\ UNCHANGED <<now, usage, apiConfigs, apiLimits, globalApis, rst, chk, inc, incLast,
                           usage0, agg, ex, lim, res>>

\* Lines 315-317.
UpdateTierHierarchyResume ==
    \E p \in Procs, fails \in BOOLEAN :
        LET updated_tiers == adm.run[p].local
        IN  /\ adm.run[p].name = "update_tier_hierarchy" /\ adm.run[p].pc = "set_global_config"
            /\ adm' = IF fails THEN End(adm, p, 500, NoDoc)
                      ELSE End([adm EXCEPT !.tiers = [tiers |-> updated_tiers]], p, 200, updated_tiers)
            /\ UNCHANGED <<now, usage, apiConfigs, apiLimits, globalApis, rst, chk, inc, incLast,
                           usage0, agg, ex, lim, res>>

\* ---------------------------------------------------------------- capability resolver
\* The admin-permission flag that goes with a capability: the flag of the
\* capability's own name.
PermissionFlag(capability_key) == capability_key

\* The overrides that the roles map of a capability holds for the roles of
\* the user.
RoleOverrides(entry, roles) ==
    LET role_map == Get(entry, "roles", NoDoc)
    IN  { role_map[r] : r \in DOMAIN role_map \cap roles }

\* A resolver that answers with the capability's default field for a key
\* that is not configured, FALSE when there is none.
Resolve_ConfigDefault(config, capability_key, tier, roles, admin_permissions, default) ==
    IF capability_key \notin DOMAIN config THEN {FALSE}
    ELSE IF PermissionFlag(capability_key) \in DOMAIN admin_permissions
    THEN {admin_permissions[PermissionFlag(capability_key)]}
    ELSE IF RoleOverrides(config[capability_key], roles) # {}
    THEN RoleOverrides(config[capability_key], roles)
    ELSE {Get(config[capability_key], "default", default)}

\* A resolver that puts the capability's default field before the overrides
\* of the roles.
Resolve_DefaultFirst(config, capability_key, tier, roles, admin_permissions, default) ==
    IF capability_key \notin DOMAIN config THEN {default}
    ELSE IF PermissionFlag(capability_key) \in DOMAIN admin_permissions
    THEN {admin_permissions[PermissionFlag(capability_key)]}
    ELSE IF "default" \in DOMAIN config[capability_key]
    THEN {config[capability_key]["default"]}
    ELSE IF RoleOverrides(config[capability_key], roles) # {}
    THEN RoleOverrides(config[capability_key], roles)
    ELSE {default}

\* resolve(capability_key, tier, roles, admin_permissions, default) over a
\* snapshot of the capabilities map: the values it may return. An absent key
\* gives the caller's default; otherwise the admin-permission flag, then the
\* override of a role of the user (which role comes first among several is
\* not laid down), then the default of the tier, then the default field, then
\* the caller's default.
Resolve(config, capability_key, tier, roles, admin_permissions, default) ==
    IF capability_key \notin DOMAIN config THEN {default}
    ELSE LET entry == config[capability_key]
             tier_defaults == Get(entry, "tiers", NoDoc)
         IN  IF PermissionFlag(capability_key) \in DOMAIN admin_permissions
             THEN {admin_permissions[PermissionFlag(capability_key)]}
             ELSE IF RoleOverrides(entry, roles) # {} THEN RoleOverrides(entry, roles)
             ELSE IF tier \in DOMAIN tier_defaults THEN {tier_defaults[tier]}
             ELSE IF "default" \in DOMAIN entry THEN {entry["default"]}
             ELSE {default}

\* One capability check over the stored configuration; it returns a value
\* and never raises.
ResolveCapability ==
    \E capability_key \in {"c1", "c2", "c3"}, tier \in Tiers,
       roles \in {{"user"}, {"user", "admin"}, {"user", "admin", "support"}},
       admin_permissions \in {NoDoc, [c1 |-> FALSE], [c3 |-> TRUE]}, default \in BOOLEAN :
        \E value \in Resolve(GetRbacCapabilities, capability_key, tier, roles, admin_permissions, default) :
            /\ res' = [called |-> TRUE, key |-> capability_key, tier |-> tier, roles |-> roles,
                       perms |-> admin_permissions, default |-> default,
                       out |-> [raised |-> FALSE, value |-> value]]
            /\ UNCHANGED <<now, usage, apiConfigs, apiLimits, globalApis, rst, chk, inc, incLast, usage0,
                           agg, ex, lim, adm>>

\* ---------------------------------------------------------------- ledger system
\* The usage ledger under two concurrent callers and the clock.
Init ==
    /\ now \in 0..MaxDay
    /\ \E doc \in UsageDocs \cup {NoDoc} :
           usage = [EmptyUserDocs EXCEPT !["u1"]["a1"] = doc]
    /\ usage0 = [store |-> usage, t |-> now]
    /\ apiConfigs = EmptyUserDocs
    /\ apiLimits = NoDoc
    /\ globalApis = [a \in Apis |-> NoDoc]
    /\ Quiet

Next ==
    \/ Tick
    \/ \E p \in Procs : IncBegin(p)
    \/ \E p \in Procs : IncFinish(p)

Spec == Init /\ [][Next]_vars

\* ---------------------------------------------------------------- reconciliation alone
InitReset ==
    /\ now \in 0..MaxDay
    /\ usage = EmptyUserDocs
    /\ usage0 = [store |-> usage, t |-> now]
    /\ apiConfigs = EmptyUserDocs
    /\ apiLimits = NoDoc
    /\ globalApis = [a \in Apis |-> NoDoc]
    /\ \E doc \in UsageDocs : rst = [IdleRst EXCEPT !.in = doc]
    /\ chk = IdleCall
    /\ inc = [p \in Procs |-> IdleProc]
    /\ incLast = IdleIncLast
    /\ agg = IdleAgg
    /\ ex = [p \in Procs |-> IdleEx]
    /\ lim = IdleLim
    /\ adm = IdleAdm
    /\ res = IdleRes

NextReset == ResetCall

SpecReset == InitReset /\ [][NextReset]_vars


\* ---------------------------------------------------------------- quota decision
PrevDay(t) == IF t > 0 THEN t - 1 ELSE t

PrevMonth(t) == IF t >= DaysPerMonth THEN t - DaysPerMonth ELSE t

\* Usage documents for the decision: none, equal counters in the current
\* period, and full counters under each combination of stale markers.
CheckUsageDocs(t) ==
    {NoDoc}
    \cup { MkUsage(m, m, GetCurrentMonthStr(t), GetCurrentDayStr(t)) : m \in 0..MaxUsage }
    \cup { MkUsage(MaxUsage, MaxUsage, lm, ld) :
             lm \in {GetCurrentMonthStr(t), GetCurrentMonthStr(PrevMonth(t))},
             ld \in {GetCurrentDayStr(t), GetCurrentDayStr(PrevDay(t))} }

CfgKeys ==
    << "creator_override_unlimited", "creator_override_monthly", "creator_override_daily",
       "user_defined_limit_monthly", "user_defined_limit_daily" >>

\* UserApiConfig documents: the unlimited override on, with or without a
\* numeric one; numeric creator overrides with or without a user-defined
\* limit; user-defined limits alone.
CheckCfgDocs ==
    { MkDict(CfgKeys, <<(<<TRUE>>), com, Absent, Absent, Absent>>) : com \in Opt({0}) }
    \cup
    { MkDict(CfgKeys, <<unl, com, cod, udm, Absent>>) :
        unl \in Opt({FALSE}), com \in Opt({0}), cod \in Opt({MaxLimit}), udm \in Opt({0}) }
    \cup
    { MkDict(CfgKeys, <<Absent, Absent, Absent, Absent, (<<MaxLimit>>)>>) }

LimitKeys == << "monthly_calls", "daily_calls", "dynamic_monthly_adjustment", "dynamic_daily_adjustment" >>

\* api_limits documents with an entry for the tier free only.
CheckLimitDocs ==
    { [limits |-> [tr \in {"free"} |-> MkDict(LimitKeys, <<sm, sd, am, ad>>)]] :
        sm \in Opt({-1, 0, MaxLimit}), sd \in Opt({-1, MaxLimit}),
        am \in Opt({0 - MaxLimit - 1, 1}), ad \in Opt({-1}) }

\* The requests that write the documents of the decision while it runs.
CheckCfgUpdates == { [user_defined_limit_monthly |-> 0] }

CheckLimitUpdates == { [monthly_calls |-> MaxLimit, daily_calls |-> MaxLimit] }

InitCheck ==
    /\ now = MaxDay
    /\ \E doc \in CheckUsageDocs(now) : usage = [EmptyUserDocs EXCEPT !["u1"]["a1"] = doc]
    /\ usage0 = [store |-> usage, t |-> now]
    /\ \/ /\ \E cfg \in CheckCfgDocs : apiConfigs = [EmptyUserDocs EXCEPT !["u1"]["a1"] = cfg]
          /\ apiLimits \in {NoDoc, [limits |-> [tr \in {"free"} |-> [monthly_calls |-> 0, daily_calls |-> 0]]]}
       \/ /\ \E cfg \in {NoDoc, [creator_override_unlimited |-> FALSE]} :
                 apiConfigs = [EmptyUserDocs EXCEPT !["u1"]["a1"] = cfg]
          /\ apiLimits \in CheckLimitDocs
    /\ globalApis = [a \in Apis |-> NoDoc]
    /\ Quiet

\* One call of check_api_limit at a time, next to one operation on the
\* user's UserApiConfig documents and one update_api_limits.
NextCheck ==
    \/ CheckLimit(Profiles, {"a1"})
    \/ CheckResume
    \/ CreateUserApiConfig({ [user_defined_limit_daily |-> MaxLimit] })
    \/ UpdateUserApiConfig(CheckCfgUpdates)
    \/ UserApiConfigResume
    \/ DeleteUserApiConfig
    \/ UpdRead({"free"}, CheckLimitUpdates)
    \/ UpdWrite

SpecCheck == InitCheck /\ [][NextCheck]_vars


\* ---------------------------------------------------------------- aggregator
\* A global API document of a1: none; one with no cap, with both caps alike,
\* or with one cap 0.
AggGlobalDocs ==
    {NoDoc, [id |-> "a1"]}
    \cup { [id |-> "a1", global_monthly_cap |-> c, global_daily_cap |-> c] : c \in {0, MaxCap - 1, MaxCap} }
    \cup { [id |-> "a1", global_monthly_cap |-> 0, global_daily_cap |-> MaxCap],
           [id |-> "a1", global_monthly_cap |-> MaxCap - 1] }

\* api_limits documents: none, or an entry of tier free with static limits
\* that are negative, unlimited or positive, with or without adjustments
\* stored by an earlier pass, next to an unlimited tier pro.
AggLimitDocs ==
    {NoDoc}
    \cup { [limits |-> [tr \in Tiers |->
                          IF tr = "free" THEN MkDict(LimitKeys, <<(<<s[1]>>), <<s[2]>>, adj, adj>>)
                          ELSE [monthly_calls |-> -1, daily_calls |-> -1]]] :
             s \in { <<-3, -3>>, <<-1, -1>>, <<-1, MaxStatic>>, <<MaxStatic, -1>>,
                     <<MaxStatic - 1, MaxStatic - 1>>, <<MaxStatic, MaxStatic>> },
             adj \in Opt({-1}) }

AggUsageDocs(t) ==
    {NoDoc} \cup { MkUsage(m, m, GetCurrentMonthStr(t), GetCurrentDayStr(t)) : m \in 1..MaxUsage }

\* Passes for a1 from the day before the last, next to the clock and one
\* operation on the global API documents.
InitAgg ==
    /\ now = MaxDay - 1
    /\ \E d1 \in CheckUsageDocs(now), d2 \in AggUsageDocs(now) :
           usage = [EmptyUserDocs EXCEPT !["u1"]["a1"] = d1, !["u2"]["a1"] = d2]
    /\ usage0 = [store |-> usage, t |-> now]
    /\ apiConfigs = EmptyUserDocs
    /\ apiLimits \in AggLimitDocs
    /\ \E g \in AggGlobalDocs : globalApis = [a \in Apis |-> IF a = "a1" THEN g ELSE NoDoc]
    /\ Quiet

\* The steps of a pass.
PassSteps ==
    \/ PassClock
    \/ PassListUsers
    \/ PassUsageRead
    \/ PassLimitsRead
    \/ PassWrite

NextAgg ==
    \/ AdjustTierLimitsDynamically({"a1"})
    \/ PassSteps
    \/ Tick
    \/ CreateGlobalApiConfig
    \/ UpdateGlobalApiConfig
    \/ GlobalApiConfigResume
    \/ DeleteGlobalApiConfig

SpecAgg == InitAgg /\ [][NextAgg]_vars


\* ---------------------------------------------------------------- executor runs
\* Two concurrent runs of wrapped_tool_executor for the same user and API,
\* one per process, over a usage record that is missing, current or stale and
\* tier limits from 0 to MaxLimit, next to the clock, one update_api_limits
\* and one update of the user's UserApiConfig.
ExecUsageDocs(t) ==
    {NoDoc}
    \cup { MkUsage(m, m, GetCurrentMonthStr(t), GetCurrentDayStr(t)) : m \in 0..MaxUsage }
    \cup { MkUsage(MaxUsage, MaxUsage, GetCurrentMonthStr(PrevMonth(t)), GetCurrentDayStr(PrevDay(t))) }

ExecLimitDocs ==
    { [limits |-> [tr \in Tiers |->
                     IF tr = "free" THEN [monthly_calls |-> l, daily_calls |-> l]
                     ELSE [monthly_calls |-> 0, daily_calls |-> 0]]] : l \in 0..MaxLimit }

InitExec ==
    /\ now = MaxDay - 1
    /\ \E doc \in ExecUsageDocs(now) : usage = [EmptyUserDocs EXCEPT !["u1"]["a1"] = doc]
    /\ usage0 = [store |-> usage, t |-> now]
    /\ apiConfigs = EmptyUserDocs
    /\ apiLimits \in ExecLimitDocs
    /\ globalApis = [a \in Apis |-> NoDoc]
    /\ Quiet

NextExec ==
    \/ \E p \in Procs : ExecCheck(p, Profiles)
    \/ \E p \in Procs : ExecCheckResume(p)
    \/ \E p \in Procs : ExecTool(p)
    \/ \E p \in Procs : ExecIncBegin(p)
    \/ \E p \in Procs : ExecIncReadFails(p)
    \/ \E p \in Procs : IncFinish(p)
    \/ \E p \in Procs : ExecReturn(p)
    \/ Tick
    \/ UpdateUserApiConfig(CheckCfgUpdates)
    \/ UserApiConfigResume
    \/ UpdRead({"free"}, CheckLimitUpdates)
    \/ UpdWrite

SpecExec == InitExec /\ [][NextExec]_vars

\* ---------------------------------------------------------------- whole system
\* The executor runs of a free user, one at a time, and calls of
\* increment_api_usage by another caller, together with the clock,
\* the aggregator passes and an update of the user's UserApiConfig, from the
\* last day of the first month, over a record of that day or none.
SystemProcs == {"p1"}

InitSystem ==
    /\ now = DaysPerMonth - 1
    /\ \E doc \in {NoDoc, MkUsage(MaxUsage, MaxUsage, GetCurrentMonthStr(now), GetCurrentDayStr(now))} :
           usage = [EmptyUserDocs EXCEPT !["u1"]["a1"] = doc]
    /\ usage0 = [store |-> usage, t |-> now]
    /\ apiConfigs = EmptyUserDocs
    /\ apiLimits \in { d \in ExecLimitDocs : d.limits["free"].monthly_calls = MaxLimit }
    /\ globalApis = [a \in Apis |->
                        IF a = "a1"
                        THEN [id |-> "a1", global_monthly_cap |-> MaxUsage, global_daily_cap |-> MaxUsage]
                        ELSE NoDoc]
    /\ Quiet

NextSystem ==
    \/ \E p \in SystemProcs :
          ExecCheck(p, { pr \in Profiles : pr.tier = "free" /\ "creator" \notin pr.roles
                                            /\ ~pr.unlimited_api_access })
    \/ \E p \in SystemProcs : ExecCheckResume(p)
    \/ \E p \in SystemProcs : ExecTool(p)
    \/ \E p \in SystemProcs : ExecIncBegin(p)
    \/ \E p \in SystemProcs : ExecIncReadFails(p)
    \/ \E p \in SystemProcs : IncFinish(p)
    \/ \E p \in SystemProcs : ExecReturn(p)
    \/ \E p \in Procs \ SystemProcs : IncBegin(p)
    \/ \E p \in Procs \ SystemProcs : IncFinish(p)
    \/ Tick
    \/ AdjustTierLimitsDynamically({"a1"})
    \/ PassSteps
    \/ UpdateUserApiConfig(CheckCfgUpdates)
    \/ UserApiConfigResume

SpecSystem == InitSystem /\ [][NextSystem]_vars


\* ---------------------------------------------------------------- limits document
\* One update_api_limits and the aggregator passes, their reads and writes
\* of the api_limits document interleaved in every order.
InitLimits ==
    /\ now = MaxDay
    /\ \E doc \in {NoDoc, MkUsage(MaxUsage, MaxUsage, GetCurrentMonthStr(now), GetCurrentDayStr(now))} :
           usage = [EmptyUserDocs EXCEPT !["u1"]["a1"] = doc]
    /\ usage0 = [store |-> usage, t |-> now]
    /\ apiConfigs = EmptyUserDocs
    /\ apiLimits \in AggLimitDocs
    /\ \E g \in {NoDoc, [id |-> "a1", global_monthly_cap |-> MaxUsage, global_daily_cap |-> MaxUsage]} :
           globalApis = [a \in Apis |-> IF a = "a1" THEN g ELSE NoDoc]
    /\ Quiet

NextLimits ==
    \/ UpdRead(Tiers \cup {""}, LimitUpdates)
    \/ UpdRejected
    \/ UpdWrite
    \/ AdjustTierLimitsDynamically({"a1"})
    \/ PassSteps

SpecLimits == InitLimits /\ [][NextLimits]_vars


\* ---------------------------------------------------------------- monitor task
\* A global API document: none, one without an id, or one with its id and
\* caps that the usage MaxUsage fills, that it fills to less than any
\* threshold, or that are 0.
MonitorGlobalDocs(api_id) ==
    {NoDoc, [name |-> "api"]}
    \cup { [id |-> api_id, global_monthly_cap |-> c, global_daily_cap |-> c] : c \in {0, MaxUsage, MaxCap} }

MonitorLimitDocs ==
    {NoDoc}
    \cup { [limits |-> [tr \in Tiers |->
                          IF tr = "free" THEN MkDict(LimitKeys, <<(<<s>>), <<s>>, adj, adj>>)
                          ELSE [monthly_calls |-> -1, daily_calls |-> -1]]] :
             s \in {1, MaxStatic}, adj \in Opt({-1}) }

InitMonitor ==
    /\ now = MaxDay
    /\ \E d1, d2 \in {NoDoc, MkUsage(MaxUsage, MaxUsage, GetCurrentMonthStr(now), GetCurrentDayStr(now))} :
           usage = [EmptyUserDocs EXCEPT !["u1"]["a1"] = d1, !["u1"]["a2"] = d2]
    /\ usage0 = [store |-> usage, t |-> now]
    /\ apiConfigs = EmptyUserDocs
    /\ apiLimits \in MonitorLimitDocs
    /\ \E g1 \in MonitorGlobalDocs("a1"), g2 \in MonitorGlobalDocs("a2") :
           globalApis = [a \in Apis |-> IF a = "a1" THEN g1 ELSE g2]
    /\ Quiet

NextMonitor ==
    \/ MonitorStart
    \/ MonitorStep
    \/ MonitorResume
    \/ MonitorFinish
    \/ PassSteps
    \/ PassRaises
    \/ CheckLimit({ [user_id |-> "u2", tier |-> tr, roles |-> {"user"}, unlimited_api_access |-> FALSE] :
                      tr \in Tiers }, Apis)
    \/ CheckResume

SpecMonitor == InitMonitor /\ [][NextMonitor]_vars


\* ---------------------------------------------------------------- admin operations
\* The empty system: no user is registered and no document is stored.
InitAdmin ==
    /\ now = MaxDay
    /\ usage = EmptyUserDocs
    /\ usage0 = [store |-> usage, t |-> now]
    /\ apiConfigs = EmptyUserDocs
    /\ apiLimits = NoDoc
    /\ globalApis = [a \in Apis |-> NoDoc]
    /\ Quiet

\* Registration of the user and the operations on the user's profile,
\* claims and sessions, two calls at a time.
NextAdmin ==
    \/ RegisterUser
    \/ RegisterUserResume
    \/ UpdateUserStatusAdmin
    \/ UpdateUserStatusAdminResume
    \/ PurgeUserSessions
    \/ UpdateUserProfileAdmin
    \/ UpdateUserProfileAdminResume
    \/ GrantAdminAccess
    \/ GrantAdminAccessResume
    \/ UpdateUserProfile
    \/ UpdateUserProfileResume

SpecAdmin == InitAdmin /\ [][NextAdmin]_vars

\* The configuration documents under every operation that may write them,
\* two calls at a time, next to an admin operation of another kind.
NextConfig ==
    \/ UpdateRbacCapabilities(Procs)
    \/ UpdateRbacCapabilitiesResume
    \/ UpdateTierHierarchy
    \/ UpdateTierHierarchyResume
    \/ PurgeUserSessions

SpecConfig == InitAdmin /\ [][NextConfig]_vars


\* ---------------------------------------------------------------- capability checks
\* Capability checks over every configuration that update_rbac_capabilities
\* stores, one call of it at a time.
NextResolve ==
    \/ UpdateRbacCapabilities({"p1"})
    \/ UpdateRbacCapabilitiesResume
    \/ ResolveCapability

SpecResolve == InitAdmin /\ [][NextResolve]_vars

\* ---------------------------------------------------------------- claims: quota decision
\* The record a check is meant to decide on: the stored one reconciled
\* against the period of the call, or zero counters when none is stored.
Reconciled(doc, t) ==
    IF ~Truthy(doc)
    THEN MkUsage(0, 0, GetCurrentMonthStr(t), GetCurrentDayStr(t))
    ELSE ResetUsageIfNeeded(doc, t)

\* The call c of check_api_limit was given the document of the collection.
ReadMade(c, collection) ==
    c.failed # collection /\ \E i \in 1..Len(c.out.reads) : c.out.reads[i] = collection

\* The documents a call decides on: those it was given by its reads and,
\* for a read it has not made, the one that is stored.
ChkStored(c) ==
    IF ReadMade(c, "api_usage") THEN c.stored ELSE usage[c.profile.user_id][c.api]

ChkTime(c) == IF ReadMade(c, "api_usage") THEN c.t ELSE now

ChkMonthly(c) == Get(Reconciled(ChkStored(c), ChkTime(c)), "monthly_usage", 0)

ChkDaily(c) == Get(Reconciled(ChkStored(c), ChkTime(c)), "daily_usage", 0)

ChkCfg(c) ==
    IF ReadMade(c, "user_api_configs") THEN c.config ELSE apiConfigs[c.profile.user_id][c.api]

ChkTierLimits(c) ==
    Get(IF ReadMade(c, "api_limits") THEN c.limits ELSE GetApiLimitsConfig, c.profile.tier, NoDoc)

\* The limit of a period as the specification defines it; -1 is unlimited.
EffectiveLimit(static, adjustment) ==
    IF static = -1 THEN -1 ELSE (IF static + adjustment > 0 THEN static + adjustment ELSE 0)

ChkEffMonthly(c) ==
    EffectiveLimit(Get(ChkTierLimits(c), "monthly_calls", -1),
                   Get(ChkTierLimits(c), "dynamic_monthly_adjustment", 0))

ChkEffDaily(c) ==
    EffectiveLimit(Get(ChkTierLimits(c), "daily_calls", -1),
                   Get(ChkTierLimits(c), "dynamic_daily_adjustment", 0))

Has(d, k) == k \in DOMAIN d

\* The threshold k of document d is set and the usage u has reached it.
Reached(d, k, u) == Has(d, k) /\ u >= d[k]

AsResult(deny) == IF deny THEN "False" ELSE "True"

\* The call has ended and no read of it failed in the store.
ChkEnded(c) == c.pc = "done" /\ c.failed = "none"

ChkNotCreator(c) == ChkEnded(c) /\ "creator" \notin c.profile.roles

ChkUnlimited(c) == Get(ChkCfg(c), "creator_override_unlimited", FALSE)

ChkNumericOverride(c) ==
    Has(ChkCfg(c), "creator_override_monthly") \/ Has(ChkCfg(c), "creator_override_daily")

ChkUserDefined(c) ==
    Has(ChkCfg(c), "user_defined_limit_monthly") \/ Has(ChkCfg(c), "user_defined_limit_daily")

\* The call is decided at stage 4.
ChkAtTierStage(c) ==
    ChkNotCreator(c) /\ ~ChkUnlimited(c) /\ ~ChkNumericOverride(c) /\ ~ChkUserDefined(c)

\* The decision of stage 4 as the specification defines it.
TierStageDecision(c) ==
    AsResult(\/ (ChkEffMonthly(c) # -1 /\ ChkMonthly(c) >= ChkEffMonthly(c))
             \/ (ChkEffDaily(c) # -1 /\ ChkDaily(c) >= ChkEffDaily(c)))

\* C1: at stage 4 a check returns false exactly when the reconciled monthly
\* usage has reached the effective monthly limit or the reconciled daily
\* usage the effective daily limit, and true otherwise; usage and limits are
\* those of the documents the call was given.
C1_TierStageDecision ==
    ChkAtTierStage(chk) => chk.out.result = TierStageDecision(chk)

\* C2: with a numeric creator override set and the unlimited override off,
\* the check returns false exactly when the reconciled usage has reached an
\* override that is set, and true otherwise, whatever the user-defined and
\* tier limits are.
C2_NumericOverrideDecides ==
    (ChkNotCreator(chk) /\ ~ChkUnlimited(chk) /\ ChkNumericOverride(chk)) =>
        chk.out.result = AsResult(\/ Reached(ChkCfg(chk), "creator_override_monthly", ChkMonthly(chk))
                                  \/ Reached(ChkCfg(chk), "creator_override_daily", ChkDaily(chk)))

\* C3: a check for a user whose UserApiConfig has creator_override_unlimited
\* true returns true, for every state of the usage record and every limit.
C3_UnlimitedOverrideAllows ==
    (ChkNotCreator(chk) /\ ChkUnlimited(chk)) => chk.out.result = "True"

\* C4: a check for a creator whose profile flag unlimited_api_access is true
\* returns true and reads no document; every other caller goes on to the
\* later stages, which begin by reading the usage record.
C4_CreatorGlobalOverride ==
    chk.pc = "done" =>
        IF "creator" \in chk.profile.roles /\ chk.profile.unlimited_api_access
        THEN chk.out.result = "True" /\ chk.out.reads = <<>>
        ELSE Len(chk.out.reads) > 0

\* C5: with no creator override of any kind and a user-defined limit set, the
\* check returns false exactly when the reconciled usage has reached a
\* user-defined limit that is set, and true otherwise, whatever the tier limits are.
C5_UserDefinedDecides ==
    (ChkNotCreator(chk) /\ ~ChkUnlimited(chk) /\ ~ChkNumericOverride(chk) /\ ChkUserDefined(chk)) =>
        chk.out.result = AsResult(\/ Reached(ChkCfg(chk), "user_defined_limit_monthly", ChkMonthly(chk))
                                  \/ Reached(ChkCfg(chk), "user_defined_limit_daily", ChkDaily(chk)))

\* C6: at stage 4 a period whose static limit is -1 never denies, whatever
\* its dynamic adjustment: the check returns true unless the other period's
\* limit is reached, and with both static limits -1 it returns true for
\* every usage.
C6_UnlimitedSentinel ==
    ChkAtTierStage(chk) =>
        LET sm == Get(ChkTierLimits(chk), "monthly_calls", -1)
            sd == Get(ChkTierLimits(chk), "daily_calls", -1)
        IN  /\ (sm = -1 /\ (sd = -1 \/ ChkDaily(chk) < ChkEffDaily(chk))) => chk.out.result = "True"
            /\ (sd = -1 /\ (sm = -1 \/ ChkMonthly(chk) < ChkEffMonthly(chk))) => chk.out.result = "True"


\* ---------------------------------------------------------------- claims: increment
\* C7: after an increment_api_usage call whose store calls succeeded, the
\* stored record has both counters one above the reconciled values the call
\* found (0 and 0 when there was no record) and both markers at the current
\* month and day.
C7_IncrementAddsOne ==
    incLast.called =>
        LET before == Reconciled(incLast.read, incLast.t)
        IN  /\ Get(incLast.after, "monthly_usage", -1) = before["monthly_usage"] + 1
            /\ Get(incLast.after, "daily_usage", -1) = before["daily_usage"] + 1
            /\ Get(incLast.after, "last_reset_month", NoMarker) = GetCurrentMonthStr(incLast.t)
            /\ Get(incLast.after, "last_reset_day", NoMarker) = GetCurrentDayStr(incLast.t)

\* C8: once two callers have each completed one increment_api_usage for the
\* same user and API within one period, in any interleaving of their reads
\* and writes, both stored counters are two above the reconciled values the
\* period started with.
C8_NoLostUpdate ==
    (/\ \A p \in Procs : inc[p].pc = "idle" /\ inc[p].done = 1
     /\ now = usage0.t) =>
        LET before == Reconciled(usage0.store["u1"]["a1"], usage0.t)
            after == usage["u1"]["a1"]
        IN  /\ Get(after, "monthly_usage", -1) = before["monthly_usage"] + 2
            /\ Get(after, "daily_usage", -1) = before["daily_usage"] + 2


\* ---------------------------------------------------------------- claims: aggregator
\* The last pass called has written the adjustments and returned.
PassWrote == agg.pc = "done" /\ agg.wrote

\* Both totals of the pass have returned.
PassSummed == agg.pc \in {"api_limits", "write"} \/ PassWrote

\* floor(limit * percent / 100).
FloorScaled(limit, percent) == (limit * percent) \div 100

\* total is at least percent % of cap.
UtilAtLeast(total, cap, percent) == cap > 0 /\ total * 100 >= percent * cap

\* The factor, in hundredths, that the threshold table of the specification
\* selects: that of the highest threshold met, 100 when none is met.
TableFactor(total, cap, high, highFactor, low, lowFactor) ==
    IF UtilAtLeast(total, cap, high) THEN highFactor
    ELSE IF UtilAtLeast(total, cap, low) THEN lowFactor
    ELSE 100

\* C10: after a pass that wrote, every tier with a static limit other than -1
\* is scaled by the factor of the highest threshold its utilization meets:
\* monthly 0.50 from 90% and 0.75 from 80%, daily 0.40 from 90% and 0.80 from 70%.
C10_HighestThresholdWins ==
    PassWrote =>
        \A tr \in DOMAIN agg.before :
            LET lm == Get(agg.before[tr], "monthly_calls", -1)
                ld == Get(agg.before[tr], "daily_calls", -1)
                entry == GetApiLimitsConfig[tr]
            IN  /\ lm # -1 =>
                       lm + entry["dynamic_monthly_adjustment"]
                           = FloorScaled(lm, TableFactor(agg.mtotal, agg.mcap, 90, 50, 80, 75))
                /\ ld # -1 =>
                       ld + entry["dynamic_daily_adjustment"]
                           = FloorScaled(ld, TableFactor(agg.dtotal, agg.dcap, 90, 40, 70, 80))


\* The factors of the rules of a period whose threshold the utilization
\* meets, in hundredths.
MetFactors(period, total, cap) ==
    IF period = "monthly"
    THEN {f \in {75, 50} : UtilAtLeast(total, cap, IF f = 75 THEN 80 ELSE 90)}
    ELSE {f \in {80, 40} : UtilAtLeast(total, cap, IF f = 80 THEN 70 ELSE 90)}

\* The integer part of limit * percent / 100, the fraction dropped towards zero.
TruncScaled(limit, percent) ==
    IF limit * percent >= 0 THEN (limit * percent) \div 100
    ELSE -((-(limit * percent)) \div 100)

\* The factor selected for a period, in hundredths: that of the first rule,
\* in the order of the rule list (0.75 from 80% before 0.50 from 90%, 0.80
\* from 70% before 0.40 from 90%), whose threshold the utilization meets,
\* and 100 when it meets none.
SelectedFactor(period, total, cap) ==
    IF period = "monthly"
    THEN (IF UtilAtLeast(total, cap, 80) THEN 75
          ELSE IF UtilAtLeast(total, cap, 90) THEN 50 ELSE 100)
    ELSE (IF UtilAtLeast(total, cap, 70) THEN 80
          ELSE IF UtilAtLeast(total, cap, 90) THEN 40 ELSE 100)

\* The adjustment of one period after a writing pass is the delta of the
\* factor selected, which is 0 when no threshold is met; scale is the
\* rounding of limit * factor.
DeltaOk(static, adjustment, period, total, cap, scale(_, _)) ==
    static # -1 =>
        /\ adjustment = scale(static, SelectedFactor(period, total, cap)) - static
        /\ MetFactors(period, total, cap) = {} => adjustment = 0

DeltasOk(scale(_, _)) ==
    PassWrote =>
        \A tr \in DOMAIN agg.before :
            LET entry == GetApiLimitsConfig[tr]
            IN  /\ DeltaOk(Get(agg.before[tr], "monthly_calls", -1),
                           entry["dynamic_monthly_adjustment"], "monthly",
                           agg.mtotal, agg.mcap, scale)
                /\ DeltaOk(Get(agg.before[tr], "daily_calls", -1),
                           entry["dynamic_daily_adjustment"], "daily",
                           agg.dtotal, agg.dcap, scale)

C12_UnlimitedNeverAdjusted ==
    PassWrote =>
        \A tr \in DOMAIN agg.before :
            LET entry == GetApiLimitsConfig[tr]
            IN  /\ Get(agg.before[tr], "monthly_calls", -1) = -1
                       => entry["dynamic_monthly_adjustment"] = 0
                /\ Get(agg.before[tr], "daily_calls", -1) = -1
                       => entry["dynamic_daily_adjustment"] = 0

\* C12 witness: a pass wrote at a monthly and a daily utilization of 90% or
\* more over a tier whose static limits are both -1 and an entry that carried
\* an adjustment of -1 with a static monthly limit of -1.
C12_Witness ==
    /\ PassWrote
    /\ UtilAtLeast(agg.mtotal, agg.mcap, 90)
    /\ UtilAtLeast(agg.dtotal, agg.dcap, 90)
    /\ "pro" \in DOMAIN agg.before
    /\ agg.before["pro"]["monthly_calls"] = -1
    /\ GetApiLimitsConfig["pro"]["dynamic_monthly_adjustment"] = 0
    /\ agg.before["free"]["monthly_calls"] = -1
    /\ Get(agg.before["free"], "dynamic_monthly_adjustment", 0) = -1
    /\ GetApiLimitsConfig["free"]["dynamic_monthly_adjustment"] = 0

RECURSIVE SumOver(_, _, _, _, _)
\* The sum of one counter over the users whose record carries the marker cur
\* under the key marker.
SumOver(S, api_id, counter, marker, cur) ==
    IF S = {} THEN 0
    ELSE LET u == CHOOSE x \in S : TRUE
             doc == usage[u][api_id]
         IN  (IF Truthy(doc) /\ Get(doc, marker, NoMarker) = cur THEN Get(doc, counter, 0) ELSE 0)
             + SumOver(S \ {u}, api_id, counter, marker, cur)

\* C13: the monthly total of a pass is the sum of monthly_usage over exactly
\* the records whose last_reset_month is the current month, and the daily
\* total the sum of daily_usage over exactly the records whose last_reset_day
\* is the current day; each period is filtered by its own marker, and current
\* is what the clock gave when the total began.
C13_TotalsFilteredByMarker ==
    PassSummed =>
        /\ agg.mtotal = SumOver(Users, agg.api, "monthly_usage", "last_reset_month",
                                GetCurrentMonthStr(agg.tm))
        /\ agg.dtotal = SumOver(Users, agg.api, "daily_usage", "last_reset_day",
                                GetCurrentDayStr(agg.td))

\* C13 witness: the day changed between the two totals of a pass, within
\* the month, over a record of the month whose day marker is the earlier day
\* and whose counters are both MaxUsage; the record counts in the monthly
\* total and not in the daily one.
C13_Witness ==
    /\ PassSummed
    /\ agg.td = agg.tm + 1
    /\ usage["u1"]["a1"] = MkUsage(MaxUsage, MaxUsage, GetCurrentMonthStr(agg.tm),
                                   GetCurrentDayStr(agg.tm))
    /\ GetCurrentMonthStr(agg.td) = GetCurrentMonthStr(agg.tm)
    /\ ~Truthy(usage["u2"]["a1"])
    /\ agg.mtotal = MaxUsage
    /\ agg.dtotal = 0

\* C20: a pass leaves every tier's monthly_calls and daily_calls as they
\* were, and for a static limit L >= 0 the adjustment written is between -L
\* and 0, so that the limit the decision uses is between 0 and L.
C20_OnlyNonPositiveDeltas ==
    PassWrote =>
        /\ DOMAIN GetApiLimitsConfig = DOMAIN agg.before
        /\ \A tr \in DOMAIN agg.before :
               LET entry == GetApiLimitsConfig[tr]
                   old == agg.before[tr]
               IN  /\ \A k \in {"monthly_calls", "daily_calls"} :
                          /\ (k \in DOMAIN entry) = (k \in DOMAIN old)
                          /\ k \in DOMAIN old => entry[k] = old[k]
                   /\ \A k \in {"monthly", "daily"} :
                          LET L == Get(old, k \o "_calls", -1)
                              a == entry["dynamic_" \o k \o "_adjustment"]
                          IN  L >= 0 => /\ -L <= a /\ a <= 0
                                        /\ 0 <= AdjustedLimit(L, a)
                                        /\ AdjustedLimit(L, a) <= L

\* C20 witness: a pass wrote at 90% or more of the monthly cap over a static
\* monthly limit of MaxStatic, which is still stored, with a negative
\* adjustment.
C20_Witness ==
    /\ PassWrote
    /\ UtilAtLeast(agg.mtotal, agg.mcap, 90)
    /\ "free" \in DOMAIN agg.before
    /\ agg.before["free"]["monthly_calls"] = MaxStatic
    /\ GetApiLimitsConfig["free"]["monthly_calls"] = MaxStatic
    /\ GetApiLimitsConfig["free"]["dynamic_monthly_adjustment"] < 0


\* C28: a pass that follows another pass for the same API, with the usage
\* records, the global API config, the static limits and the period as they
\* were, leaves the api_limits document as the pass before left it: the
\* write of a pass whose totals and caps are those of the last pass that
\* wrote changes nothing.
C28_PassIdempotent ==
    [][(/\ agg.pc = "write"
        /\ agg'.pc = "done"
        /\ agg.last = [api |-> agg.api, mtotal |-> agg.mtotal, dtotal |-> agg.dtotal,
                       mcap |-> agg.mcap, dcap |-> agg.dcap])
       => apiLimits' = apiLimits]_vars

\* C28 witness: two passes have run and written at a monthly utilization of
\* 80% or more over a static monthly limit of MaxStatic; the second pass found
\* the adjustments of the first, a negative monthly one next to a daily one
\* of 0, which no initial document holds, and stored the same.
C28_Witness ==
    /\ agg.passes = 2
    /\ PassWrote
    /\ agg.last = [api |-> agg.api, mtotal |-> agg.mtotal, dtotal |-> agg.dtotal,
                   mcap |-> agg.mcap, dcap |-> agg.dcap]
    /\ UtilAtLeast(agg.mtotal, agg.mcap, 80)
    /\ "free" \in DOMAIN agg.before
    /\ agg.before["free"]["monthly_calls"] = MaxStatic
    /\ "dynamic_monthly_adjustment" \in DOMAIN agg.before["free"]
    /\ agg.before["free"]["dynamic_monthly_adjustment"] < 0
    /\ Get(agg.before["free"], "dynamic_daily_adjustment", -1) = 0
    /\ apiLimits = [limits |-> agg.before]

\* ---------------------------------------------------------------- claims: stale markers
MonthStale(doc, t) == Get(doc, "last_reset_month", NoMarker) # GetCurrentMonthStr(t)

DayStale(doc, t) == Get(doc, "last_reset_day", NoMarker) # GetCurrentDayStr(t)

\* ---------------------------------------------------------------- claims: frame of the decision
\* C16: a call of check_api_limit leaves the stored usage records, the
\* UserApiConfig documents and the ApiLimitsConfig as they were, on every path
\* and also when the stored record is stale.
C16_CheckWritesNothing ==
    [][chk' # chk => (usage' = usage /\ apiConfigs' = apiConfigs /\ apiLimits' = apiLimits)]_vars

\* C16 witness: a check has run on a stored record whose month and day
\* markers are both stale, and the record is stored as it was, with its
\* counters and its stale markers.
C16_Witness ==
    /\ chk.pc = "done"
    /\ ReadMade(chk, "api_usage")
    /\ Truthy(chk.stored)
    /\ MonthStale(chk.stored, chk.t)
    /\ DayStale(chk.stored, chk.t)
    /\ chk.stored["monthly_usage"] = MaxUsage
    /\ chk.stored["daily_usage"] = MaxUsage
    /\ usage[chk.profile.user_id][chk.api] = chk.stored
    /\ usage = usage0.store


\* ---------------------------------------------------------------- claims: metered execution
IncrementUntouched(p) == inc[p].pc = "idle" /\ inc[p].done = 0

\* C14: in every run the tool starts only after check_api_limit has returned
\* true; a false result raises the 403 with code API_LIMIT_EXCEEDED, the tool
\* is not executed and increment_api_usage is not called; increment_api_usage
\* is called only after the tool has returned, at most once, and exactly once
\* in a run that returns; a tool that raises causes no increment.
C14_ExecutionOrder ==
    \A p \in Procs :
        /\ ex[p].tools > 0 => ex[p].check = "True"
        /\ ex[p].tools <= 1
        /\ ex[p].check = "False" =>
               /\ ex[p].pc = "raised"
               /\ ex[p].out = "HTTPException 403 API_LIMIT_EXCEEDED"
               /\ ex[p].tools = 0
               /\ IncrementUntouched(p)
        /\ ~IncrementUntouched(p) =>
               /\ ex[p].tools = 1
               /\ ex[p].out # "ToolError"
               /\ inc[p].done <= 1
        /\ ex[p].out = "ToolError" => IncrementUntouched(p)
        /\ ex[p].pc = "returned" =>
               ex[p].tools = 1 /\ inc[p].done = 1 /\ inc[p].pc = "idle"

\* C14 witness: one run has returned the tool's output after one tool
\* execution and one increment call, and another run was denied with the 403
\* without executing the tool or calling the increment.
C14_Witness ==
    \E p, q \in Procs :
        /\ ex[p].pc = "returned"
        /\ ex[p].out = "tool_output"
        /\ ex[p].tools = 1
        /\ inc[p].done = 1
        /\ ex[q].check = "False"
        /\ ex[q].out = "HTTPException 403 API_LIMIT_EXCEEDED"
        /\ ex[q].tools = 0
        /\ IncrementUntouched(q)

\* The call was decided at stage 4 with the reconciled usage one call below
\* the effective tier limit in both periods.
OneCallRemaining(c) ==
    /\ ChkAtTierStage(c)
    /\ ChkMonthly(c) = ChkEffMonthly(c) - 1
    /\ ChkDaily(c) = ChkEffDaily(c) - 1

\* The call compared the counters of a user for whom no usage record was
\* stored, zero in both periods.
ComparedWithoutRecord(c) == ReadMade(c, "api_usage") /\ ~Truthy(c.stored)

\* C15: nothing serializes the checks of two concurrent runs for the same
\* user and API: when both have made their check with one call remaining,
\* on the counters of a user without a stored record, and neither increment
\* has begun, both checks have returned true and both runs go on to the tool.
C15_ChecksNotSerialized ==
    \A p, q \in Procs :
        (/\ p # q
         /\ ex[p].call.profile.user_id = ex[q].call.profile.user_id
         /\ ex[p].call.api = ex[q].call.api
         /\ ex[p].check # "none" /\ ex[q].check # "none"
         /\ IncrementUntouched(p) /\ IncrementUntouched(q)
         /\ ComparedWithoutRecord(ex[p].call) /\ ComparedWithoutRecord(ex[q].call)
         /\ OneCallRemaining(ex[p].call) /\ OneCallRemaining(ex[q].call))
        => /\ ex[p].check = "True" /\ ex[q].check = "True"
           /\ ex[p].pc # "raised" \/ ex[p].out = "ToolError"
           /\ ex[q].pc # "raised" \/ ex[q].out = "ToolError"

\* C15 witness: two runs for the same user and API have both been admitted
\* with one call remaining, under an effective limit of 1 in both periods,
\* and both have executed the tool before either called the increment: two
\* calls executed in a period whose limit is 1.
C15_Witness ==
    \E p, q \in Procs :
        /\ p # q
        /\ ex[p].call.profile.user_id = ex[q].call.profile.user_id
        /\ ex[p].call.api = ex[q].call.api
        /\ ex[p].call.t = ex[q].call.t
        /\ OneCallRemaining(ex[p].call) /\ OneCallRemaining(ex[q].call)
        /\ ChkEffMonthly(ex[p].call) = 1 /\ ChkEffMonthly(ex[q].call) = 1
        /\ ChkEffDaily(ex[p].call) = 1 /\ ChkEffDaily(ex[q].call) = 1
        /\ ex[p].check = "True" /\ ex[q].check = "True"
        /\ ex[p].pc = "increment" /\ ex[q].pc = "increment"
        /\ ex[p].tools + ex[q].tools = 2
        /\ IncrementUntouched(p) /\ IncrementUntouched(q)

\* C17: no exception leaves increment_api_usage: once the check has returned
\* true the only exception that can leave the run is the tool's, and a run
\* whose increment call has ended, with or without a logged failure, returns
\* the tool's output.
C17_IncrementNeverRaises ==
    \A p \in Procs :
        /\ ex[p].check = "True" => ex[p].out \in {"none", "tool_output", "ToolError"}
        /\ ex[p].pc = "returned" => ex[p].out = "tool_output"
        /\ (inc[p].done = 1 /\ inc[p].pc = "idle") => ex[p].pc \in {"increment", "returned"}

\* C17 witness: a run has returned the tool's output although the read of
\* its increment failed in the store, next to a run that returned it although
\* its increment logged the exception of its own body.
C17_Witness ==
    \E p, q \in Procs :
        /\ ex[p].pc = "returned" /\ ex[p].out = "tool_output" /\ inc[p].logged = "StoreError"
        /\ ex[q].pc = "returned" /\ ex[q].out = "tool_output" /\ inc[q].logged = "TypeError"

\* The run's check made a read that failed in the store.
ReadFailed(p) == ex[p].call.failed # "none"

\* C18: when a read made by check_api_limit fails, the check does not return
\* true, the failure is what leaves the executor, and neither the tool nor
\* the increment runs.
C18_FailClosed ==
    \A p \in Procs :
        ReadFailed(p) =>
            /\ ex[p].check \notin {"True", "False", "none"}
            /\ ex[p].pc = "raised"
            /\ ex[p].out = ex[p].check
            /\ ex[p].tools = 0
            /\ IncrementUntouched(p)

\* C18 witness: the read of the usage record failed in one run and the read
\* of the limits configuration in another, the latter after the usage and
\* the UserApiConfig reads went through; neither run executed the tool.
C18_Witness ==
    \E p, q \in Procs :
        /\ ex[p].call.failed = "api_usage" /\ ex[p].pc = "raised" /\ ex[p].tools = 0
        /\ ex[q].call.failed = "api_limits" /\ ex[q].pc = "raised" /\ ex[q].tools = 0
        /\ ex[q].call.out.reads = <<"api_usage", "user_api_configs", "api_limits">>

\* The record has a marker of an earlier period than that of day t.
Stale(doc, t) == Truthy(doc) /\ (MonthStale(doc, t) \/ DayStale(doc, t))

\* C19: every stored counter is non-negative, and a counter accumulated in an
\* earlier period is neither compared with a limit nor added to: the
\* counters a check compares are the reconciled ones, a check that read a
\* record with a stale marker compares nothing that differs from them, and
\* the record an increment leaves is the one it read or the reconciled one
\* plus one.
C19_LedgerInvariant ==
    /\ \A u \in Users, a \in Apis :
           Truthy(usage[u][a]) =>
               Get(usage[u][a], "monthly_usage", 0) >= 0 /\ Get(usage[u][a], "daily_usage", 0) >= 0
    /\ \A p \in Procs :
           LET c == ex[p].call
           IN  (ReadMade(c, "api_usage") /\ (Running(c) \/ c.out.result \in {"True", "False"}))
               => c.monthly = ChkMonthly(c) /\ c.daily = ChkDaily(c)
    /\ (incLast.called /\ incLast.logged # "StoreError")
       => \/ incLast.after = incLast.read
          \/ incLast.after = AddOne(Reconciled(incLast.read, incLast.t))

\* C19 witness: a record with full counters was stored, and a day and a
\* month rollover later a check has read it, an increment has read it and
\* ended, and an aggregator pass has ended; the stored record is the one
\* of the earlier period.
C19_Witness ==
    \E p \in Procs :
        /\ Stale(ex[p].call.stored, ex[p].call.t)
        /\ MonthStale(ex[p].call.stored, ex[p].call.t)
        /\ ReadMade(ex[p].call, "api_usage")
        /\ ex[p].call.stored["monthly_usage"] = MaxUsage
        /\ ex[p].check # "none"
        /\ incLast.called
        /\ incLast.read = ex[p].call.stored
        /\ MonthStale(incLast.read, incLast.t)
        /\ incLast.logged # "StoreError"
        /\ agg.pc = "done"
        /\ usage[incLast.user][incLast.api] = incLast.read


\* ---------------------------------------------------------------- claims: admin operations
RevokingOps == {"update_user_status_admin", "update_user_profile", "grant_admin_access"}

\* Process p makes the step of one of the three operations in which its call
\* of auth.revoke_refresh_tokens fails.
RevocationFails(p) ==
    /\ adm'.run[p] # adm.run[p]
    /\ adm'.run[p].name \in RevokingOps
    /\ adm'.run[p].revoke \notin {"none", "ok"}
    /\ adm.run[p].pc # "get_user"

\* The operation of p ends, its revocation having failed.
RevocationFailedEnds(p) ==
    /\ adm'.run[p] # adm.run[p]
    /\ adm'.run[p].name \in RevokingOps
    /\ adm'.run[p].revoke \notin {"none", "ok"}
    /\ adm'.run[p].pc = "done"

\* After the step, the change the operation of p was asked to make is in
\* the stored profile and claims.
ChangeApplied(p) ==
    LET input == adm'.run[p].input
    IN  CASE adm'.run[p].name = "update_user_status_admin" ->
                Get(adm'.profile, "status", "none") = input.new_status
          [] adm'.run[p].name = "update_user_profile" ->
                /\ \A k \in DOMAIN input : k \in DOMAIN adm'.profile /\ adm'.profile[k] = input[k]
                /\ \A k \in DOMAIN input \cap {"tier", "roles"} :
                       k \in DOMAIN adm'.claims /\ adm'.claims[k] = input[k]
          [] adm'.run[p].name = "grant_admin_access" ->
                adm'.claims = NewClaims(adm.claims, input.permissions, input.replace_all)
          [] OTHER -> TRUE

\* C21: when update_user_status_admin, the profile update route or
\* grant_admin_access called for the revocation of the user's sessions and
\* the revocation failed, the change the operation made to the profile and
\* the claims is in place and the operation reports success.
C21_RevocationNotEscalated ==
    [][\A p \in Procs :
           /\ RevocationFails(p) => ChangeApplied(p)
           /\ RevocationFailedEnds(p) => adm'.run[p].status = 200]_vars

ConfigOps == {"update_rbac_capabilities", "update_tier_hierarchy"}

\* Process p makes a step of one of the two configuration operations.
ConfigStep(p) == adm'.run[p] # adm.run[p] /\ adm'.run[p].name \in ConfigOps

ConfigKept == adm'.capabilities = adm.capabilities /\ adm'.tiers = adm.tiers

\* C22: update_rbac_capabilities and update_tier_hierarchy called by an admin
\* without the creator role end with a 403 and leave both documents as they
\* were, and over any sequence of operations the rbac_capabilities and tiers
\* documents change only in a step of one of the two made by a creator, the
\* step in which it returns.
C22_OnlyCreatorMutatesConfig ==
    [][/\ \A p \in Procs :
              (ConfigStep(p) /\ "creator" \notin adm'.run[p].roles) =>
                  /\ adm'.run[p].pc = "done"
                  /\ adm'.run[p].status = 403
                  /\ ConfigKept
       /\ ~ConfigKept =>
              \E p \in Procs :
                  /\ ConfigStep(p)
                  /\ "creator" \in adm'.run[p].roles
                  /\ adm'.run[p].pc = "done"
                  /\ adm'.run[p].status = 200]_vars

\* C22 witness: an admin without the creator role called
\* update_rbac_capabilities and got a 403, over documents that a creator had
\* written before.
C22_Witness ==
    \E p \in Procs :
        /\ adm.run[p].name = "update_rbac_capabilities"
        /\ "creator" \notin adm.run[p].roles
        /\ adm.run[p].pc = "done"
        /\ adm.run[p].status = 403
        /\ "c1" \in DOMAIN GetRbacCapabilities
        /\ GetRbacCapabilities["c1"]["roles"] = [admin |-> TRUE]
        /\ "pro" \in DOMAIN GetTierHierarchy


\* ---------------------------------------------------------------- claims: capability resolver
\* The step is a capability check; the configuration it reads is the stored
\* one, which it leaves as it is.
Resolved == res' # res

\* C23: a capability check for a key that the CapabilityConfig does not hold
\* returns the default the caller supplied, for every tier, role set and
\* admin-permission map, and does not raise.
C23_AbsentKeyGivesCallerDefault ==
    [][(Resolved /\ res'.key \notin DOMAIN GetRbacCapabilities) =>
           (~res'.out.raised /\ res'.out.value = res'.default)]_vars

\* C23 witness: a check for the unconfigured key c3 with default TRUE, by a
\* user with the admin role and an admin-permission flag of that name, over a
\* configuration that holds other keys whose default is FALSE.
C23_Witness ==
    /\ res.called
    /\ res.key = "c3"
    /\ res.default
    /\ "admin" \in res.roles
    /\ "c3" \in DOMAIN res.perms
    /\ "c1" \in DOMAIN GetRbacCapabilities
    /\ ~GetRbacCapabilities["c1"]["default"]
    /\ res.out.value
    /\ ~res.out.raised

\* The roles among roles that have an override under the capability.
OverridingRoles(capability_key, roles) ==
    IF capability_key \in DOMAIN GetRbacCapabilities
    THEN DOMAIN Get(GetRbacCapabilities[capability_key], "roles", NoDoc) \cap roles
    ELSE {}

\* C24 as stated: for a configured capability and a user holding a role with
\* an override under its roles map, the resolved value is that role's
\* override.
C24_RoleOverrideUsed ==
    [][Resolved =>
           \A r \in OverridingRoles(res'.key, res'.roles) :
               res'.out.value = GetRbacCapabilities[res'.key]["roles"][r]]_vars

\* C24 amended: when the admin-permission map has no flag for the
\* capability, the resolved value is the override of one of the user's roles
\* that have one, hence the override itself when they all agree, whatever the
\* default field and the caller's default are.
C24_RoleOverrideUnlessFlag ==
    [][(/\ Resolved
        /\ OverridingRoles(res'.key, res'.roles) # {}
        /\ PermissionFlag(res'.key) \notin DOMAIN res'.perms) =>
           \E r \in OverridingRoles(res'.key, res'.roles) :
               res'.out.value = GetRbacCapabilities[res'.key]["roles"][r]]_vars

\* C24 witness: c1 has the default FALSE and the override TRUE for the role
\* admin only; an admin without a flag for c1 asked with the default FALSE
\* and got TRUE.
C24_Witness ==
    /\ res.called
    /\ res.key = "c1"
    /\ "c1" \in DOMAIN GetRbacCapabilities
    /\ GetRbacCapabilities["c1"]["roles"] = [admin |-> TRUE]
    /\ ~GetRbacCapabilities["c1"]["default"]
    /\ ~res.default
    /\ "admin" \in res.roles
    /\ "c1" \notin DOMAIN res.perms
    /\ res.out.value


\* ---------------------------------------------------------------- claims: monitor task
LastWriter == lim.mon.wrote[Len(lim.mon.wrote)]

MonthTotal(api_id) == SumOver(Users, api_id, "monthly_usage", "last_reset_month", GetCurrentMonthStr(now))

DayTotal(api_id) == SumOver(Users, api_id, "daily_usage", "last_reset_day", GetCurrentDayStr(now))

\* The tier stage for a user with no usage on record: denied exactly when an
\* adjusted limit other than -1 is 0.
DeniedAtZero(entry) ==
    LET m == AdjustedLimit(Get(entry, "monthly_calls", -1), Get(entry, "dynamic_monthly_adjustment", 0))
        d == AdjustedLimit(Get(entry, "daily_calls", -1), Get(entry, "dynamic_daily_adjustment", 0))
    IN  (m # -1 /\ 0 >= m) \/ (d # -1 /\ 0 >= d)

\* C26: once _monitor_global_api_usage_task has gone through all global
\* APIs, the stored adjustments of every tier are those of the utilization of
\* the last API whose pass wrote: the delta of a factor whose threshold that
\* API meets, 0 when it meets none, and 0 for an unlimited tier, whatever an
\* earlier pass stored; and check_api_limit decides on the tier's one pair of
\* adjustments whichever api_id it is asked about.
C26_LastPassWins ==
    /\ [](lim.mon.pc = "done" /\ lim.mon.wrote # <<>> =>
           \A tr \in DOMAIN GetApiLimitsConfig :
               LET entry == GetApiLimitsConfig[tr]
                   cfg == globalApis[LastWriter]
               IN  /\ {"dynamic_monthly_adjustment", "dynamic_daily_adjustment"} \subseteq DOMAIN entry
                   /\ Get(entry, "monthly_calls", -1) = -1 => entry["dynamic_monthly_adjustment"] = 0
                   /\ Get(entry, "daily_calls", -1) = -1 => entry["dynamic_daily_adjustment"] = 0
                   /\ DeltaOk(Get(entry, "monthly_calls", -1), entry["dynamic_monthly_adjustment"],
                              "monthly", MonthTotal(LastWriter), cfg["global_monthly_cap"], TruncScaled)
                   /\ DeltaOk(Get(entry, "daily_calls", -1), entry["dynamic_daily_adjustment"],
                              "daily", DayTotal(LastWriter), cfg["global_daily_cap"], TruncScaled))
    /\ [][(chk' # chk /\ chk'.pc = "done") =>
             chk'.out.result =
                 IF DeniedAtZero(Get(GetApiLimitsConfig, chk'.profile.tier, NoDoc)) THEN "False" ELSE "True"]_vars

\* C26 witness: the pass for a1, filled to its caps, wrote first and the
\* pass for a2, with no usage, wrote last; the task is through and the
\* adjustments of tier free, whose static limits are not -1, are 0.
C26_Witness ==
    /\ lim.mon.pc = "done"
    /\ lim.mon.wrote = <<"a1", "a2">>
    /\ "free" \in DOMAIN GetApiLimitsConfig
    /\ MetFactors("monthly", MonthTotal("a1"), globalApis["a1"]["global_monthly_cap"]) # {}
    /\ MetFactors("monthly", MonthTotal("a2"), globalApis["a2"]["global_monthly_cap"]) = {}
    /\ GetApiLimitsConfig["free"]["monthly_calls"] = MaxStatic
    /\ GetApiLimitsConfig["free"]["dynamic_monthly_adjustment"] = 0
    /\ GetApiLimitsConfig["free"]["dynamic_daily_adjustment"] = 0

\* C26 second witness: the last pass that wrote was that of a1, filled to
\* its caps; a user of tier free with no usage on a2 is denied a call of a2.
C26_WitnessOtherApi ==
    /\ lim.mon.pc = "done"
    /\ lim.mon.wrote = <<"a2", "a1">>
    /\ MonthTotal("a2") = 0
    /\ "free" \in DOMAIN GetApiLimitsConfig
    /\ chk.pc = "done"
    /\ chk.api = "a2"
    /\ chk.profile.tier = "free"
    /\ chk.limits = GetApiLimitsConfig
    /\ GetApiLimitsConfig["free"]["dynamic_monthly_adjustment"] = -1
    /\ chk.out.result = "False"


\* ---------------------------------------------------------------- claims: limits document
StaticKeys == {"monthly_calls", "daily_calls"}

\* C27: once an update_api_limits and an aggregator pass that ran
\* concurrently have both completed, in any interleaving of their reads and
\* writes, the static limits of the updated tier are the values the admin
\* wrote.
C27_AdminUpdateNotLost ==
    (lim.upd.pc = "done" /\ PassWrote) =>
        \A k \in DOMAIN lim.upd.limits \cap StaticKeys :
            /\ lim.upd.tier \in DOMAIN GetApiLimitsConfig
            /\ k \in DOMAIN GetApiLimitsConfig[lim.upd.tier]
            /\ GetApiLimitsConfig[lim.upd.tier][k] = lim.upd.limits[k]

\* C30: an update_api_limits whose read and write nothing came between
\* leaves the entries of the other tiers as they were; without replace the
\* tier's entry keeps every key not named in limits and takes the named
\* values; with replace the entry is exactly limits, so that an adjustment
\* not named in limits is read as 0 at the tier stage.
C30_UpdateFrame ==
    (/\ lim.upd.pc = "done"
     /\ lim.upd.before = lim.upd.current
     /\ apiLimits = [limits |-> lim.upd.after]) =>
        LET old == lim.upd.before
            new == GetApiLimitsConfig
            tier == lim.upd.tier
            limits == lim.upd.limits
            was == Get(old, tier, NoDoc)
        IN  /\ DOMAIN new = DOMAIN old \cup {tier}
            /\ \A other \in DOMAIN old \ {tier} : new[other] = old[other]
            /\ \A k \in DOMAIN limits : new[tier][k] = limits[k]
            /\ ~lim.upd.replace =>
                   /\ DOMAIN new[tier] = DOMAIN was \cup DOMAIN limits
                   /\ \A k \in DOMAIN was \ DOMAIN limits : new[tier][k] = was[k]
            /\ lim.upd.replace =>
                   /\ new[tier] = limits
                   /\ \A k \in {"dynamic_monthly_adjustment", "dynamic_daily_adjustment"} \ DOMAIN limits :
                          /\ k \notin DOMAIN new[tier]
                          /\ Get(new[tier], k, 0) = 0
                   /\ "dynamic_monthly_adjustment" \notin DOMAIN limits =>
                          \A m \in 0..MaxUsage, d \in 0..MaxUsage :
                              LET monthly_calls == Get(limits, "monthly_calls", -1)
                                  daily_calls == Get(limits, "daily_calls", -1)
                              IN  TierStage(new, tier, m, d, <<>>).result =
                                     IF \/ (monthly_calls # -1 /\ m >= monthly_calls)
                                        \/ (daily_calls # -1 /\ d >= daily_calls)
                                     THEN "False" ELSE "True"

\* C30 witness: a replacing update of tier free has completed over an entry
\* that carried adjustments of -1, which are gone, next to the entry of tier
\* pro, which is as it was.
C30_Witness ==
    /\ lim.upd.pc = "done"
    /\ lim.upd.before = lim.upd.current
    /\ apiLimits = [limits |-> lim.upd.after]
    /\ lim.upd.replace
    /\ lim.upd.tier = "free"
    /\ "free" \in DOMAIN lim.upd.before
    /\ Get(lim.upd.before["free"], "dynamic_monthly_adjustment", 0) = -1
    /\ "dynamic_monthly_adjustment" \notin DOMAIN GetApiLimitsConfig["free"]
    /\ "pro" \in DOMAIN lim.upd.before
    /\ GetApiLimitsConfig["pro"] = lim.upd.before["pro"]


C25_MissingLimitsFailOpen ==
    (ChkAtTierStage(chk) /\ ~Truthy(ChkTierLimits(chk))) => chk.out.result = "True"


\* ---------------------------------------------------------------- claims: reconciliation
\* C9: the month check and the day check of _reset_usage_if_needed are
\* independent. A stale day marker zeroes daily_usage and sets last_reset_day
\* to the current day; a stale month marker zeroes monthly_usage and sets
\* last_reset_month to the current month; a current marker leaves its counter
\* and itself as they were; with both markers current the record is returned
\* unchanged, and no other key is touched in any case.
C9_ResetIndependent ==
    rst.called =>
        LET i == rst.in
            o == rst.out
        IN  /\ DayStale(i, rst.t) =>
                   o["daily_usage"] = 0 /\ o["last_reset_day"] = GetCurrentDayStr(rst.t)
            /\ MonthStale(i, rst.t) =>
                   o["monthly_usage"] = 0 /\ o["last_reset_month"] = GetCurrentMonthStr(rst.t)
            /\ ~DayStale(i, rst.t) =>
                   o["daily_usage"] = i["daily_usage"] /\ o["last_reset_day"] = i["last_reset_day"]
            /\ ~MonthStale(i, rst.t) =>
                   o["monthly_usage"] = i["monthly_usage"]
                   /\ o["last_reset_month"] = i["last_reset_month"]
            /\ (~DayStale(i, rst.t) /\ ~MonthStale(i, rst.t)) => o = i
            /\ DOMAIN o = DOMAIN i \cup {"last_reset_month", "last_reset_day"}

\* C9 witness: a record of the current month whose day marker is an earlier
\* day and whose counters are both positive has been reconciled.
C9_Witness ==
    /\ rst.called
    /\ DayStale(rst.in, rst.t)
    /\ ~MonthStale(rst.in, rst.t)
    /\ "last_reset_day" \in DOMAIN rst.in
    /\ rst.in["daily_usage"] = MaxUsage
    /\ rst.in["monthly_usage"] = MaxUsage
    /\ rst.out["daily_usage"] = 0
    /\ rst.out["monthly_usage"] = MaxUsage


====
